---- MODULE Spec2Model ----
(***************************************************************************)
(* Model of asylo's untrusted enclave host: the EnclaveManager registry    *)
(* (client_by_name_, name_by_client_, load_config_by_client_), its load    *)
(* and teardown paths, and the EnclaveSignalDispatcher signal map.         *)
(*                                                                         *)
(* Every public operation is split into the steps between which the code   *)
(* drops its locks, each thread t having a program counter pc[t], the      *)
(* code's locals loc[t], and a history record hist[t] that the code does   *)
(* not have (the state before the call, the steps performed so far).  A    *)
(* finished call rests in pc[t] = "ret" with its status until Return.      *)
(***************************************************************************)
EXTENDS Integers, Sequences, FiniteSets, TLC

\* Number of client objects the host may ever construct.
MaxClients == 2

Clients == 1..MaxClients
Signals == {11, 12}
Names == {"", "a"}
Threads == {1, 2}
\* The threads that run in the sequential specification.
SeqThreads == {1}

\* nullptr
Nil == 0

\* A clock value that no Tick has written yet.
Unset == 0 - 1

VARIABLES
    client_by_name_,         \* name -> owned client (partial map)
    name_by_client_,         \* client -> name (partial map)
    load_config_by_client_,  \* client -> EnclaveLoadConfig (partial map)
    signal_to_client_map_,   \* signum -> client (partial map)
    state,                   \* lifecycle of every client object
    freed,                   \* client objects whose unique_ptr was released
    lastRegistered,          \* history: the client of the latest RegisterSignal
                             \* per signal, until a sweep for that client
    pc, loc, hist,
    mu_,                     \* the thread holding EnclaveManager::mu_, or Nil
    configured_,             \* static bool configured_
    options_,                \* static EnclaveManagerOptions *options_
    instance_,               \* static EnclaveManager *instance_
    host_config_,            \* host_config_ of the constructed manager
    clock_monotonic_,        \* published clock values of the manager
    clock_realtime_,
    workers,                 \* clock threads started so far
    constructed,             \* history: constructor runs so far
    okConfigures,            \* history: the Configure calls that stored options
    reserved,                \* address ranges held by a PROT_NONE mapping
    signal_enclave_map_lock_,  \* the call frame holding the signal-map lock
    sigmask,                 \* the signals blocked on the dispatching thread
    frames                   \* its call stack: the dispatcher call under way
                             \* and the signal handlers that interrupted it

\* The statics and the members of the EnclaveManager singleton.
singleton == <<mu_, configured_, options_, instance_, host_config_,
               clock_monotonic_, clock_realtime_, workers, constructed,
               okConfigures>>

\* The signal-map lock and the signal context of the dispatching thread.
masking == <<signal_enclave_map_lock_, sigmask, frames>>

vars == <<client_by_name_, name_by_client_, load_config_by_client_,
          signal_to_client_map_, state, freed, lastRegistered, pc, loc,
          hist, singleton, reserved, masking>>

registry == <<client_by_name_, name_by_client_, load_config_by_client_>>

----------------------------------------------------------------------------
\* Associative containers.

EmptyMap == [k \in {} |-> Nil]

\* map.erase(key)
Erase(m, k) == [x \in (DOMAIN m) \ {k} |-> m[x]]

\* map.emplace(key, value): inserts only when the key is absent.
Emplace(m, k, v) ==
    IF k \in DOMAIN m THEN m
    ELSE [x \in (DOMAIN m) \cup {k} |-> IF x = k THEN v ELSE m[x]]

\* map[key] = value
Assign(m, k, v) == [x \in (DOMAIN m) \cup {k} |-> IF x = k THEN v ELSE m[x]]

\* map[key] as an rvalue: value-initialises a missing entry.
Subscript(m, k, dflt) == Emplace(m, k, dflt)

----------------------------------------------------------------------------
\* Inputs.

\* EnclaveLoadConfig: name, the sgx_load_config extension (its source and its
\* fork sub-record) and the enable_fork bit of the embedded EnclaveConfig.
\* The manager treats the file and the embedded source alike; fork-enabled
\* configurations are drawn with the file source only.
LoadConfigs ==
    [name : Names, sgx : {TRUE}, source : {"file", "none"},
     enable_fork : BOOLEAN, base_address : {0, 1}]
    \cup
    [name : Names, sgx : {TRUE}, source : {"embedded"},
     enable_fork : {FALSE}, base_address : {0, 1}]
    \cup
    [name : Names, sgx : {FALSE}, source : {"none"},
     enable_fork : BOOLEAN, base_address : {0}]

NoLoadConfig ==
    [name |-> "", sgx |-> FALSE, source |-> "none", enable_fork |-> FALSE,
     base_address |-> 0]

NoLoc ==
    [op |-> "none", name |-> "", load_config |-> NoLoadConfig,
     enable_fork |-> FALSE, base_address |-> 0, client |-> Nil,
     skip_finalize |-> FALSE, signum |-> 0,
     status |-> "OK", finalize_status |-> "OK", result |-> Nil]

NoHist ==
    [pre |-> <<EmptyMap, EmptyMap, EmptyMap>>, preSignals |-> EmptyMap,
     trace |-> <<>>, created |-> FALSE, entered |-> Nil, failed |-> FALSE,
     args |-> [base_address |-> 0, enclave_size |-> 0]]

Init ==
    /\ client_by_name_ = EmptyMap
    /\ name_by_client_ = EmptyMap
    /\ load_config_by_client_ = EmptyMap
    /\ signal_to_client_map_ = EmptyMap
    /\ state = [c \in Clients |-> "None"]
    /\ freed = {}
    /\ lastRegistered = [s \in Signals |-> Nil]
    /\ pc = [t \in Threads |-> "idle"]
    /\ loc = [t \in Threads |-> NoLoc]
    /\ hist = [t \in Threads |-> NoHist]
    /\ mu_ = Nil
    /\ configured_ = FALSE
    /\ options_ = Nil
    /\ instance_ = Nil
    /\ host_config_ = Nil
    /\ clock_monotonic_ = Unset
    /\ clock_realtime_ = Unset
    /\ workers = 0
    /\ constructed = 0
    /\ okConfigures = [count |-> 0, last |-> Nil]
    /\ reserved = {}
    /\ signal_enclave_map_lock_ = 0
    /\ sigmask = {}
    /\ frames = <<>>

\* The base address and size arguments of a call that has none.
NoArgs == [base_address |-> 0, enclave_size |-> 0]

\* One step of a call and its outcome, as recorded in hist[t].trace.
Ev(step, outcome) == [step |-> step, outcome |-> outcome]

\* The history record of a call that starts now.
StartHist ==
    [NoHist EXCEPT !.pre = registry, !.preSignals = signal_to_client_map_]

\* Client objects not yet constructed; one is reserved for every load that
\* has passed its entry and has not constructed its client yet.
Unused == {c \in Clients : state[c] = "None"}
Loading == {t \in Threads : pc[t] \in {"load_check", "load_create",
                                       "fake_check", "fake_create"}}
CanConstruct == Cardinality(Unused) > Cardinality(Loading)
NewClient == CHOOSE c \in Unused : \A d \in Unused : c <= d

----------------------------------------------------------------------------
\* Lookups.

GetClient(name) ==
    IF name \in DOMAIN client_by_name_ THEN client_by_name_[name] ELSE Nil

\* A missing entry yields absl::string_view(), which compares equal to "".
GetName(client) ==
    IF client \in DOMAIN name_by_client_ THEN name_by_client_[client]
    ELSE ""

----------------------------------------------------------------------------
\* EnclaveManager::LoadEnclave(const EnclaveLoadConfig &)

\* A fork re-creation that leaves the parent's reference in place.
RemoveNoReference(reg, name) == reg

\* RemoveEnclaveReference on the three maps reg = <<by name, by client,
\* load config>>: client_by_name_[name] value-initialises a missing entry.
RemoveEnclaveReference(reg, name) ==
    LET byName == Subscript(reg[1], name, Nil)
        client == byName[name]
    IN  <<Erase(byName, name), Erase(reg[2], client), reg[3]>>

\* Lines 420-443: resolve the configuration and, in a forked child, drop the
\* parent's reference.  enable_fork is the bit of the resolved EnclaveConfig
\* (SetEnclaveConfigDefaults keeps it, CreateDefaultEnclaveConfig clears it);
\* the base address is read from the fork sub-record of the SGX extension.
LoadEnclaveBegin(t, load_config, args) ==
    LET name == load_config.name
        base == IF load_config.sgx THEN load_config.base_address ELSE 0
        remove == load_config.enable_fork /\ base # 0
        reg == IF remove THEN RemoveEnclaveReference(registry, name)
               ELSE registry
    IN  /\ pc[t] = "idle"
        /\ CanConstruct
        /\ client_by_name_' = reg[1]
        /\ name_by_client_' = reg[2]
        /\ load_config_by_client_' = reg[3]
        /\ freed' = IF remove /\ GetClient(name) # Nil
                    THEN freed \cup {GetClient(name)} ELSE freed
        /\ loc' = [loc EXCEPT ![t] =
                     [NoLoc EXCEPT !.op = "LoadEnclave", !.name = name,
                                   !.load_config = load_config,
                                   !.enable_fork = load_config.enable_fork,
                                   !.base_address = base]]
        /\ hist' = [hist EXCEPT ![t] =
                      [StartHist EXCEPT !.args = args, !.trace =
                          IF remove THEN <<Ev("RemoveEnclaveReference", "OK")>>
                          ELSE <<>>]]
        /\ pc' = [pc EXCEPT ![t] = "load_check"]
        /\ UNCHANGED <<signal_to_client_map_, lastRegistered, state>>
        /\ UNCHANGED <<singleton, reserved, masking>>

LoadEnclave(t) ==
    /\ pc[t] = "idle"
    /\ \E load_config \in LoadConfigs :
         LoadEnclaveBegin(t, load_config, NoArgs)

\* A collision check that never finds the name.
NameExistsNever(map, name) == FALSE

\* Lines 447 and 377: client_by_name_.find(name) != client_by_name_.end()
NameExists(map, name) == name \in DOMAIN map

\* Lines 444-453: the collision check under the reader lock.
LoadCheck(t) ==
    /\ pc[t] = "load_check"
    /\ IF NameExists(client_by_name_, loc[t].name)
       THEN /\ loc' = [loc EXCEPT ![t].status = "ALREADY_EXISTS"]
            /\ pc' = [pc EXCEPT ![t] = "ret"]
       ELSE /\ pc' = [pc EXCEPT ![t] = "load_create"]
            /\ UNCHANGED loc
    /\ UNCHANGED <<registry, signal_to_client_map_, lastRegistered, state, freed,
                   hist>>
    /\ UNCHANGED <<singleton, reserved, masking>>

\* Outcomes of the backend's native region creation.
CreateOutcomes == {"OK", "SGX_ERROR"}

\* asylo::LoadEnclave / LoadSgxEnclave: is there a backend to call?
BackendSupported(load_config) ==
    load_config.sgx /\ load_config.source \in {"file", "embedded"}

\* LoadSgxEnclave, lines 51-59: the base address and the size handed to the
\* backend's Load are those of the fork sub-record of the load configuration,
\* null and 0 without one.  A fork sub-record is drawn with a nonzero size.
BackendArgs(load_config) ==
    IF load_config.sgx /\ load_config.base_address # 0
    THEN [base_address |-> load_config.base_address, enclave_size |-> 1]
    ELSE [base_address |-> 0, enclave_size |-> 0]

\* Lines 455-461: construct the client through the backend.
LoadCreate(t) ==
    /\ pc[t] = "load_create"
    /\ IF ~BackendSupported(loc[t].load_config)
       THEN /\ loc' = [loc EXCEPT ![t].status = "INVALID_ARGUMENT"]
            /\ pc' = [pc EXCEPT ![t] = "ret"]
            /\ UNCHANGED <<state, hist>>
       ELSE \E outcome \in CreateOutcomes :
            /\ hist' = [hist EXCEPT ![t].created = TRUE,
                                    ![t].trace = Append(@, Ev("Create", outcome))]
            /\ IF outcome = "OK"
               THEN /\ state' = [state EXCEPT ![NewClient] = "Loaded"]
                    /\ loc' = [loc EXCEPT ![t].client = NewClient]
                    /\ pc' = [pc EXCEPT ![t] = "load_insert"]
               ELSE /\ loc' = [loc EXCEPT ![t].status = outcome]
                    /\ pc' = [pc EXCEPT ![t] = "ret"]
                    /\ UNCHANGED state
    /\ UNCHANGED <<registry, signal_to_client_map_, lastRegistered, freed>>
    /\ UNCHANGED <<singleton, reserved, masking>>

\* A load that goes on to Initialize without adding the client to the tables.
LoadInsertSkipped(t) ==
    /\ pc[t] = "load_insert"
    /\ hist' = [hist EXCEPT ![t].trace = Append(@, Ev("Insert", "OK"))]
    /\ pc' = [pc EXCEPT ![t] = "load_init"]
    /\ UNCHANGED <<registry, signal_to_client_map_, lastRegistered, state,
                   loc, freed>>
    /\ UNCHANGED <<singleton, reserved, masking>>

\* Lines 463-473: add the client to the lookup tables under the writer lock.
LoadInsert(t) ==
    /\ pc[t] = "load_insert"
    /\ client_by_name_' = Emplace(client_by_name_, loc[t].name, loc[t].client)
    /\ name_by_client_' = Emplace(name_by_client_, loc[t].client, loc[t].name)
    /\ load_config_by_client_' =
           IF loc[t].enable_fork
           THEN Emplace(load_config_by_client_, loc[t].client,
                        loc[t].load_config)
           ELSE load_config_by_client_
    \* A unique_ptr that emplace did not take is released with its client.
    /\ freed' = IF loc[t].name \in DOMAIN client_by_name_
                THEN freed \cup {loc[t].client} ELSE freed
    /\ hist' = [hist EXCEPT ![t].trace = Append(@, Ev("Insert", "OK"))]
    /\ pc' = [pc EXCEPT ![t] = "load_init"]
    /\ UNCHANGED <<signal_to_client_map_, lastRegistered, state, loc>>
    /\ UNCHANGED <<singleton, reserved, masking>>

\* Outcomes of EnterAndInitialize.
InitOutcomes == {"OK", "INIT_FAILED"}

\* Line 475: EnterAndInitialize.
LoadInit(t) ==
    /\ pc[t] = "load_init"
    /\ \E outcome \in InitOutcomes :
         /\ loc' = [loc EXCEPT ![t].status = outcome]
         /\ hist' = [hist EXCEPT ![t].trace = Append(@, Ev("Initialize", outcome))]
         /\ IF outcome = "OK"
            THEN /\ state' = [state EXCEPT ![loc[t].client] = "Initialized"]
                 /\ pc' = [pc EXCEPT ![t] = "ret"]
            ELSE /\ pc' = [pc EXCEPT ![t] = "load_destroy"]
                 /\ UNCHANGED state
    /\ UNCHANGED <<registry, signal_to_client_map_, lastRegistered, freed>>
    /\ UNCHANGED <<singleton, reserved, masking>>

\* Outcomes of the client's DestroyEnclave (SgxEnclaveClient::Destroy).
DestroyOutcomes == {"OK", "SGX_ERROR"}

\* Lines 478-483: the client's DestroyEnclave after a failed Initialize; its
\* status is only logged.
LoadDestroy(t) ==
    /\ pc[t] = "load_destroy"
    /\ \E outcome \in DestroyOutcomes :
         hist' = [hist EXCEPT ![t].trace = Append(@, Ev("Destroy", outcome))]
    /\ state' = [state EXCEPT ![loc[t].client] = "Destroyed"]
    /\ pc' = [pc EXCEPT ![t] = "load_erase"]
    /\ UNCHANGED <<registry, signal_to_client_map_, lastRegistered, freed, loc>>
    /\ UNCHANGED <<singleton, reserved, masking>>

\* A cleanup that forgets the persisted load configuration.
EraseFailedLoadKeepConfig(reg, name, client) ==
    <<Erase(reg[1], name), Erase(reg[2], client), reg[3]>>

\* The erasures of lines 486-488 on reg = <<by name, by client, load config>>.
EraseFailedLoad(reg, name, client) ==
    <<Erase(reg[1], name), Erase(reg[2], client), Erase(reg[3], client)>>

\* Lines 484-491: unregister the client and return the Initialize status.
LoadErase(t) ==
    LET reg == EraseFailedLoad(registry, loc[t].name, loc[t].client)
    IN  /\ pc[t] = "load_erase"
        /\ client_by_name_' = reg[1]
        /\ name_by_client_' = reg[2]
        /\ load_config_by_client_' = reg[3]
        /\ freed' = IF GetClient(loc[t].name) # Nil
                    THEN freed \cup {GetClient(loc[t].name)} ELSE freed
        /\ hist' = [hist EXCEPT ![t].trace = Append(@, Ev("Erase", "OK"))]
        /\ pc' = [pc EXCEPT ![t] = "ret"]
        /\ UNCHANGED <<signal_to_client_map_, lastRegistered, state, loc>>
        /\ UNCHANGED <<singleton, reserved, masking>>

----------------------------------------------------------------------------
\* EnclaveManager::LoadEnclave(name, loader, [config,] base_address, size)
\* and EnclaveManager::LoadFakeEnclave

\* What a loader's GetEnclaveLoadConfig() may return (the name is set by the
\* manager).
Loaders == {lc \in LoadConfigs : lc.name = ""}

\* The EnclaveConfig argument: absent (first overload), or given with
\* enable_fork set or clear (second overload).
ConfigArgs == {"absent", "fork", "nofork"}

\* Lines 321-334 and 346-360: the load configuration handed on for a loader
\* with an SGX extension.  The fork sub-record is written into a local copy
\* of the extension only, so the loader's own sub-record is what remains.
NamedLoadConfig(name, loader, config) ==
    [loader EXCEPT !.name = name,
                   !.enable_fork = IF config = "absent" THEN loader.enable_fork
                                   ELSE config = "fork"]

\* Lines 335-339 and 361-366, then 374: entry of LoadFakeEnclave.
FakeBegin(t, name, config, base_address, enclave_size) ==
    /\ pc[t] = "idle"
    /\ CanConstruct
    /\ loc' = [loc EXCEPT ![t] =
                 [NoLoc EXCEPT !.op = "LoadFakeEnclave", !.name = name,
                               !.enable_fork = (config = "fork"),
                               !.base_address = base_address]]
    /\ hist' = [hist EXCEPT ![t] =
                  [StartHist EXCEPT !.args = [base_address |-> base_address,
                                              enclave_size |-> enclave_size]]]
    /\ pc' = [pc EXCEPT ![t] = "fake_check"]
    /\ UNCHANGED <<registry, signal_to_client_map_, lastRegistered, state, freed>>
    /\ UNCHANGED <<singleton, reserved, masking>>

LoadEnclaveNamed(t) ==
    /\ pc[t] = "idle"
    /\ \E name \in Names, loader \in Loaders, config \in ConfigArgs,
          base_address \in {0, 1}, enclave_size \in {0, 1} :
        /\ NamedLoadConfig(name, loader, config) \in LoadConfigs
        /\ IF loader.sgx
           THEN LoadEnclaveBegin(t, NamedLoadConfig(name, loader, config),
                                 [base_address |-> base_address,
                                  enclave_size |-> enclave_size])
           ELSE FakeBegin(t, name, config, base_address, enclave_size)

\* Lines 374-383: the collision check under the reader lock.
FakeCheck(t) ==
    /\ pc[t] = "fake_check"
    /\ IF NameExists(client_by_name_, loc[t].name)
       THEN /\ loc' = [loc EXCEPT ![t].status = "ALREADY_EXISTS"]
            /\ pc' = [pc EXCEPT ![t] = "ret"]
       ELSE /\ pc' = [pc EXCEPT ![t] = "fake_create"]
            /\ UNCHANGED loc
    /\ UNCHANGED <<registry, signal_to_client_map_, lastRegistered, state, freed,
                   hist>>
    /\ UNCHANGED <<singleton, reserved, masking>>

\* Lines 385-391: loader.LoadEnclave.
FakeCreate(t) ==
    /\ pc[t] = "fake_create"
    /\ \E outcome \in CreateOutcomes :
         /\ hist' = [hist EXCEPT ![t].created = TRUE,
                                 ![t].trace = Append(@, Ev("Create", outcome))]
         /\ IF outcome = "OK"
            THEN /\ state' = [state EXCEPT ![NewClient] = "Loaded"]
                 /\ loc' = [loc EXCEPT ![t].client = NewClient]
                 /\ pc' = [pc EXCEPT ![t] = "fake_insert"]
            ELSE /\ loc' = [loc EXCEPT ![t].status = outcome]
                 /\ pc' = [pc EXCEPT ![t] = "ret"]
                 /\ UNCHANGED state
    /\ UNCHANGED <<registry, signal_to_client_map_, lastRegistered, freed>>
    /\ UNCHANGED <<singleton, reserved, masking>>

\* Lines 393-399: add the client to the lookup tables.
FakeInsert(t) ==
    /\ pc[t] = "fake_insert"
    /\ client_by_name_' = Emplace(client_by_name_, loc[t].name, loc[t].client)
    /\ name_by_client_' = Emplace(name_by_client_, loc[t].client, loc[t].name)
    /\ freed' = IF loc[t].name \in DOMAIN client_by_name_
                THEN freed \cup {loc[t].client} ELSE freed
    /\ hist' = [hist EXCEPT ![t].trace = Append(@, Ev("Insert", "OK"))]
    /\ pc' = [pc EXCEPT ![t] = "fake_init"]
    /\ UNCHANGED <<load_config_by_client_, signal_to_client_map_, lastRegistered,
                   state, loc>>
    /\ UNCHANGED <<singleton, reserved, masking>>

\* Line 401: EnterAndInitialize.
FakeInit(t) ==
    /\ pc[t] = "fake_init"
    /\ \E outcome \in InitOutcomes :
         /\ loc' = [loc EXCEPT ![t].status = outcome]
         /\ hist' = [hist EXCEPT ![t].trace = Append(@, Ev("Initialize", outcome))]
         /\ IF outcome = "OK"
            THEN /\ state' = [state EXCEPT ![loc[t].client] = "Initialized"]
                 /\ pc' = [pc EXCEPT ![t] = "ret"]
            ELSE /\ pc' = [pc EXCEPT ![t] = "fake_destroy"]
                 /\ UNCHANGED state
    /\ UNCHANGED <<registry, signal_to_client_map_, lastRegistered, freed>>
    /\ UNCHANGED <<singleton, reserved, masking>>

\* Lines 404-409: the client's DestroyEnclave after a failed Initialize.
FakeDestroy(t) ==
    /\ pc[t] = "fake_destroy"
    /\ \E outcome \in DestroyOutcomes :
         hist' = [hist EXCEPT ![t].trace = Append(@, Ev("Destroy", outcome))]
    /\ state' = [state EXCEPT ![loc[t].client] = "Destroyed"]
    /\ pc' = [pc EXCEPT ![t] = "fake_erase"]
    /\ UNCHANGED <<registry, signal_to_client_map_, lastRegistered, freed, loc>>
    /\ UNCHANGED <<singleton, reserved, masking>>

\* A cleanup that leaves the name registered.
EraseFailedFakeLoadKeepName(reg, name, client) ==
    <<reg[1], Erase(reg[2], client), reg[3]>>

\* The erasures of lines 412-413 on reg = <<by name, by client, load config>>.
EraseFailedFakeLoad(reg, name, client) ==
    <<Erase(reg[1], name), Erase(reg[2], client), reg[3]>>

\* Lines 410-416: unregister the client and return the Initialize status.
FakeErase(t) ==
    LET reg == EraseFailedFakeLoad(registry, loc[t].name, loc[t].client)
    IN  /\ pc[t] = "fake_erase"
        /\ client_by_name_' = reg[1]
        /\ name_by_client_' = reg[2]
        /\ load_config_by_client_' = reg[3]
        /\ freed' = IF GetClient(loc[t].name) # Nil
                    THEN freed \cup {GetClient(loc[t].name)} ELSE freed
        /\ hist' = [hist EXCEPT ![t].trace = Append(@, Ev("Erase", "OK"))]
        /\ pc' = [pc EXCEPT ![t] = "ret"]
        /\ UNCHANGED <<signal_to_client_map_, lastRegistered, state, loc>>
        /\ UNCHANGED <<singleton, reserved, masking>>

----------------------------------------------------------------------------
\* EnclaveSignalDispatcher

\* A sweep that stops after the first mapping it erased.
DeregisterFirst(map, client) ==
    LET owned == {x \in DOMAIN map : map[x] = client}
        first == {x \in owned : \A y \in owned : x <= y}
    IN  [s \in (DOMAIN map) \ first |-> map[s]]

\* The mappings that survive the sweep of lines 572-588.
DeregisterAll(map, client) ==
    [s \in {x \in DOMAIN map : map[x] # client} |-> map[s]]

\* The signals the sweep visits for the client.
OwnedSignals(map, client) == {s \in DOMAIN map : map[s] = client}

\* Line 567, 575-581: the status after signal(signum, SIG_DFL) failed for
\* the signals in failures.
DeregisterStatus(failures) ==
    IF failures = {} THEN "OK" ELSE "INVALID_ARGUMENT"

\* A sweep that returns at the first signal whose default disposition could
\* not be restored, leaving that mapping and the later ones in place.
SweepUntilFailure(map, client, failures) ==
    LET owned == OwnedSignals(map, client)
        visited == {s \in owned : \A f \in failures : s < f}
    IN  [map |-> [s \in (DOMAIN map) \ visited |-> map[s]],
         status |-> DeregisterStatus(failures)]

\* Lines 562-592: the map and the status the sweep leaves when
\* signal(signum, SIG_DFL) fails for the signals in failures.
Sweep(map, client, failures) ==
    [map |-> DeregisterAll(map, client),
     status |-> DeregisterStatus(failures)]

\* lastRegistered updated for a deregistration of the client.
Removed == 0 - 1
ForgetClient(last, client) ==
    [s \in Signals |-> IF last[s] = client THEN Removed ELSE last[s]]

\* The clients a caller can pass: objects that exist (constructed, not yet
\* released with their unique_ptr) and whose region has not been destroyed.
LiveClients == {c \in Clients : state[c] \in {"Loaded", "Initialized"}
                                /\ c \notin freed}

\* A registration that keeps the owner a signal already has.
RegisterSignalIfAbsent(map, signum, client) == Emplace(map, signum, client)

\* Lines 541-560, the map update under signal_enclave_map_lock_.
RegisterSignalMap(map, signum, client) == Assign(map, signum, client)

\* Lines 547-554, the previous owner.
OldClient(map, signum) ==
    IF signum \in DOMAIN map THEN map[signum] ELSE Nil

RegisterSignal(t) ==
    /\ pc[t] = "idle"
    /\ \E signum \in Signals, client \in LiveClients :
        /\ signal_to_client_map_' =
               RegisterSignalMap(signal_to_client_map_, signum, client)
        /\ lastRegistered' = [lastRegistered EXCEPT ![signum] = client]
        /\ loc' = [loc EXCEPT ![t] =
                     [NoLoc EXCEPT !.op = "RegisterSignal",
                                   !.signum = signum, !.client = client,
                                   !.result =
                                       OldClient(signal_to_client_map_, signum)]]
        /\ hist' = [hist EXCEPT ![t] = StartHist]
        /\ pc' = [pc EXCEPT ![t] = "ret"]
        /\ UNCHANGED <<registry, state, freed>>
        /\ UNCHANGED <<singleton, reserved, masking>>

\* Lines 562-592 as a call of its own.
DeregisterAllSignalsForClient(t) ==
    /\ pc[t] = "idle"
    /\ \E client \in LiveClients :
       \E failures \in SUBSET OwnedSignals(signal_to_client_map_, client) :
        /\ signal_to_client_map_' =
               Sweep(signal_to_client_map_, client, failures).map
        /\ lastRegistered' = ForgetClient(lastRegistered, client)
        /\ loc' = [loc EXCEPT ![t] =
                     [NoLoc EXCEPT !.op = "DeregisterAllSignalsForClient",
                                   !.client = client,
                                   !.status =
                                       Sweep(signal_to_client_map_, client,
                                             failures).status]]
        /\ hist' = [hist EXCEPT ![t] =
                      [StartHist EXCEPT !.failed = (failures # {})]]
        /\ pc' = [pc EXCEPT ![t] = "ret"]
        /\ UNCHANGED <<registry, state, freed>>
        /\ UNCHANGED <<singleton, reserved, masking>>

\* A lookup that does not test for a missing entry.
GetClientForSignalUnchecked(map, signum) ==
    [status |-> "OK",
     client |-> IF signum \in DOMAIN map THEN map[signum] ELSE Nil]

\* Lines 530-539: the owner of the signal, or an INVALID_ARGUMENT status.
GetClientForSignal(map, signum) ==
    IF signum \in DOMAIN map
    THEN [status |-> "OK", client |-> map[signum]]
    ELSE [status |-> "INVALID_ARGUMENT", client |-> Nil]

\* Lines 597-598: the lookup, and the early return of its error.
EnterEnclaveAndHandleSignal(t) ==
    /\ pc[t] = "idle"
    /\ \E signum \in Signals :
        LET found == GetClientForSignal(signal_to_client_map_, signum)
        IN  /\ hist' = [hist EXCEPT ![t] = StartHist]
            /\ loc' = [loc EXCEPT ![t] =
                         [NoLoc EXCEPT !.op = "EnterEnclaveAndHandleSignal",
                                       !.signum = signum,
                                       !.client = found.client,
                                       !.status = found.status]]
            /\ pc' = [pc EXCEPT ![t] =
                         IF found.status = "OK" THEN "signal_enter"
                         ELSE "ret"]
        /\ UNCHANGED <<registry, signal_to_client_map_, lastRegistered,
                       state, freed>>
        /\ UNCHANGED <<singleton, reserved, masking>>

\* Outcomes of the client's EnterAndHandleSignal.
SignalOutcomes == {"OK", "SIGNAL_FAILED"}

\* Lines 599-608: build the EnclaveSignal and enter the owning client.
SignalEnter(t) ==
    /\ pc[t] = "signal_enter"
    /\ \E outcome \in SignalOutcomes :
         loc' = [loc EXCEPT ![t].status = outcome]
    \* The history keeps the lifecycle state the client was entered in.
    /\ hist' = [hist EXCEPT ![t].entered = loc[t].client,
                            ![t].trace =
                                Append(@, Ev("Enter", state[loc[t].client]))]
    /\ pc' = [pc EXCEPT ![t] = "ret"]
    /\ UNCHANGED <<registry, signal_to_client_map_, lastRegistered, state,
                   freed>>
    /\ UNCHANGED <<singleton, reserved, masking>>

----------------------------------------------------------------------------
\* EnclaveManager::DestroyEnclave

\* Outcomes of EnterAndFinalize.
FinalizeOutcomes == {"OK", "FINALIZE_FAILED"}

\* Lines 221-228: the null check and Finalize.
DestroyEnclave(t) ==
    /\ pc[t] = "idle"
    /\ \E client \in LiveClients \cup {Nil}, skip_finalize \in BOOLEAN :
       \E outcome \in FinalizeOutcomes :
        /\ IF client = Nil
           THEN /\ loc' = [loc EXCEPT ![t] =
                             [NoLoc EXCEPT !.op = "DestroyEnclave",
                                           !.skip_finalize = skip_finalize]]
                /\ hist' = [hist EXCEPT ![t] = StartHist]
                /\ pc' = [pc EXCEPT ![t] = "ret"]
           ELSE /\ loc' = [loc EXCEPT ![t] =
                             [NoLoc EXCEPT
                                 !.op = "DestroyEnclave", !.client = client,
                                 !.skip_finalize = skip_finalize,
                                 !.finalize_status =
                                     IF skip_finalize THEN "OK" ELSE outcome]]
                /\ hist' = [hist EXCEPT ![t] =
                              [StartHist EXCEPT !.trace =
                                  IF skip_finalize THEN <<>>
                                  ELSE <<Ev("Finalize", outcome)>>]]
                /\ pc' = [pc EXCEPT ![t] = "destroy_destroy"]
        /\ UNCHANGED <<registry, signal_to_client_map_, lastRegistered,
                       state, freed>>
        /\ UNCHANGED <<singleton, reserved, masking>>

\* A teardown that returns as soon as the client's DestroyEnclave fails.
DestroyDestroyOrReturn(t) ==
    /\ pc[t] = "destroy_destroy"
    /\ \E outcome \in DestroyOutcomes :
         /\ loc' = [loc EXCEPT ![t].status = outcome]
         /\ hist' = [hist EXCEPT ![t].trace = Append(@, Ev("Destroy", outcome))]
         /\ pc' = [pc EXCEPT ![t] = IF outcome = "OK" THEN "destroy_deregister"
                                    ELSE "ret"]
    /\ state' = [state EXCEPT ![loc[t].client] = "Destroyed"]
    /\ UNCHANGED <<registry, signal_to_client_map_, lastRegistered, freed>>
    /\ UNCHANGED <<singleton, reserved, masking>>

\* Lines 230-231: the client's DestroyEnclave; a failure is logged.
DestroyDestroy(t) ==
    /\ pc[t] = "destroy_destroy"
    /\ \E outcome \in DestroyOutcomes :
         /\ loc' = [loc EXCEPT ![t].status = outcome]
         /\ hist' = [hist EXCEPT ![t].trace = Append(@, Ev("Destroy", outcome))]
    /\ state' = [state EXCEPT ![loc[t].client] = "Destroyed"]
    /\ pc' = [pc EXCEPT ![t] = "destroy_deregister"]
    /\ UNCHANGED <<registry, signal_to_client_map_, lastRegistered, freed>>
    /\ UNCHANGED <<singleton, reserved, masking>>

\* Lines 233-237: DeregisterAllSignalsForClient; a failure is logged.
DestroyDeregister(t) ==
    /\ pc[t] = "destroy_deregister"
    /\ \E failures \in
           SUBSET OwnedSignals(signal_to_client_map_, loc[t].client) :
         LET swept == Sweep(signal_to_client_map_, loc[t].client, failures)
         IN  /\ loc' = [loc EXCEPT ![t].status = swept.status]
             /\ hist' = [hist EXCEPT
                           ![t].failed = (failures # {}),
                           ![t].trace = Append(@, Ev("Deregister",
                                                     swept.status))]
             /\ signal_to_client_map_' = swept.map
    /\ lastRegistered' = ForgetClient(lastRegistered, loc[t].client)
    /\ pc' = [pc EXCEPT ![t] = "destroy_erase"]
    /\ UNCHANGED <<registry, state, freed>>
    /\ UNCHANGED <<singleton, reserved, masking>>

\* A removal that leaves the name mapped.
EraseDestroyedKeepName(reg, client) ==
    <<reg[1], Erase(reg[2], client), Erase(reg[3], client)>>

\* Lines 240-243 on reg = <<by name, by client, load config>>:
\* name_by_client_[client] value-initialises a missing entry to "".
EraseDestroyed(reg, client) ==
    LET byClient == Subscript(reg[2], client, "")
        name == byClient[client]
    IN  <<Erase(reg[1], name), Erase(byClient, client), Erase(reg[3], client)>>

\* A return of the status of the last step instead.
DestroyResultLast(l) == l.status

\* Line 245: the status DestroyEnclave returns.
DestroyResult(l) == l.finalize_status

\* Lines 239-245: remove the client from the tables, return.
DestroyErase(t) ==
    LET reg == EraseDestroyed(registry, loc[t].client)
        name == Subscript(name_by_client_, loc[t].client, "")[loc[t].client]
    IN  /\ pc[t] = "destroy_erase"
        /\ client_by_name_' = reg[1]
        /\ name_by_client_' = reg[2]
        /\ load_config_by_client_' = reg[3]
        /\ freed' = IF GetClient(name) # Nil
                    THEN freed \cup {GetClient(name)} ELSE freed
        /\ loc' = [loc EXCEPT ![t].status = DestroyResult(loc[t])]
        /\ hist' = [hist EXCEPT ![t].trace = Append(@, Ev("Erase", "OK"))]
        /\ pc' = [pc EXCEPT ![t] = "ret"]
        /\ UNCHANGED <<signal_to_client_map_, lastRegistered, state>>
        /\ UNCHANGED <<singleton, reserved, masking>>

\* The caller receives the status; the thread is free for the next call.
Return(t) ==
    /\ pc[t] = "ret"
    /\ pc' = [pc EXCEPT ![t] = "idle"]
    /\ loc' = [loc EXCEPT ![t] = NoLoc]
    /\ hist' = [hist EXCEPT ![t] = NoHist]
    /\ UNCHANGED <<registry, signal_to_client_map_, lastRegistered, state, freed>>
    /\ UNCHANGED <<singleton, reserved, masking>>

Step(t) ==
    \/ LoadEnclave(t)
    \/ LoadCheck(t)
    \/ LoadCreate(t)
    \/ LoadInsert(t)
    \/ LoadInit(t)
    \/ LoadDestroy(t)
    \/ LoadErase(t)
    \/ LoadEnclaveNamed(t)
    \/ FakeCheck(t)
    \/ FakeCreate(t)
    \/ FakeInsert(t)
    \/ FakeInit(t)
    \/ FakeDestroy(t)
    \/ FakeErase(t)
    \/ RegisterSignal(t)
    \/ DeregisterAllSignalsForClient(t)
    \/ EnterEnclaveAndHandleSignal(t)
    \/ SignalEnter(t)
    \/ DestroyEnclave(t)
    \/ DestroyDestroy(t)
    \/ DestroyDeregister(t)
    \/ DestroyErase(t)
    \/ Return(t)

Next == \E t \in SeqThreads : Step(t)

Spec == Init /\ [][Next]_vars

----------------------------------------------------------------------------
\* Signal delivery while the manager works: one thread loads and destroys
\* enclaves, and signals are registered and delivered in the context of
\* another thread, between any two steps of the first.

ManagerThread == 1
SignalThread == 2

\* The load configurations of the manager thread here: one name, the file
\* source, with and without fork.
SignalLoadConfigs ==
    {lc \in LoadConfigs : lc.name = "a" /\ lc.sgx /\ lc.source = "file"}

LoadEnclaveForSignals(t) ==
    /\ pc[t] = "idle"
    /\ \E load_config \in SignalLoadConfigs :
         LoadEnclaveBegin(t, load_config, NoArgs)

ManagerStep(t) ==
    \/ LoadEnclaveForSignals(t)
    \/ LoadCheck(t)
    \/ LoadCreate(t)
    \/ LoadInsert(t)
    \/ LoadInit(t)
    \/ LoadDestroy(t)
    \/ LoadErase(t)
    \/ DestroyEnclave(t)
    \/ DestroyDestroy(t)
    \/ DestroyDeregister(t)
    \/ DestroyErase(t)
    \/ Return(t)

SignalStep(t) ==
    \/ RegisterSignal(t)
    \/ EnterEnclaveAndHandleSignal(t)
    \/ SignalEnter(t)
    \/ Return(t)

SignalNext == ManagerStep(ManagerThread) \/ SignalStep(SignalThread)

SignalSpec == Init /\ [][SignalNext]_vars

----------------------------------------------------------------------------
\* The SGX backend: SgxBackend::Load, SgxEmbeddedBackend::Load and
\* SgxEnclaveClient::EnclaveCallInternal (untrusted_sgx.cc).

\* The variables of the manager's registry and of the signal dispatcher.
manager == <<client_by_name_, name_by_client_, load_config_by_client_,
             signal_to_client_map_, state, freed, lastRegistered>>

kMaxEnclaveCreateAttempts == 5

\* How many outcomes of the native creation call an input fixes in advance.
MaxOutcomes == 6

Interrupted == "SGX_INTERNAL_ERROR_ENCLAVE_CREATE_INTERRUPTED"

\* sgx_status_t values of sgx_create_enclave_ex and of
\* sgx_create_enclave_from_buffer_ex.
NativeStatuses == {"SGX_SUCCESS", Interrupted, "SGX_ERROR_UNEXPECTED"}

\* What the native layer answers to the first, second, ... creation call.
Scripts == [1..MaxOutcomes -> NativeStatuses]

\* Status(sgx_status_t, message): a status in the SGX error space.
SgxStatus(code) == [domain |-> "sgx", code |-> code]

\* Status(error::GoogleError, message) and Status::OkStatus().
GoogleStatus(code) == [domain |-> "google", code |-> code]
OkStatus == GoogleStatus("OK")

\* An address range other than the one asked for.
OtherAddress == 2

NoSgxLoc ==
    [op |-> "none", loader |-> "none", base_address |-> 0, enclave_size |-> 0,
     script |-> [k \in 1..MaxOutcomes |-> "SGX_SUCCESS"], i |-> 0,
     native |-> "none", status |-> OkStatus, client |-> FALSE,
     selector |-> 0, retval |-> 0, ecalls |-> <<>>]

\* The creation calls made so far by the Load of thread t, in order.
Attempts(t) ==
    LET made == {j \in 1..Len(hist[t].trace) : hist[t].trace[j].step = "Create"}
    IN  [k \in 1..Cardinality(made) |->
            hist[t].trace[CHOOSE j \in made :
                              Cardinality({x \in made : x <= j}) = k].outcome]

\* Lines 72-90 and 112-116: entry of Load, up to the first call that can fail.
SgxLoad(t) ==
    /\ pc[t] = "idle"
    /\ \E loader \in {"file", "embedded"}, base_address \in {0, 1},
          enclave_size \in {0, 1}, script \in Scripts :
        /\ loc' = [loc EXCEPT ![t] =
                     [NoSgxLoc EXCEPT !.op = "Load", !.loader = loader,
                                      !.base_address = base_address,
                                      !.enclave_size = enclave_size,
                                      !.script = script]]
        /\ pc' = [pc EXCEPT ![t] = IF loader = "file" THEN "sgx_create"
                                   ELSE "sgx_reserve"]
    /\ hist' = [hist EXCEPT ![t] = StartHist]
    /\ UNCHANGED <<manager, singleton, reserved, masking>>

\* A reservation made for every non-null base address, whatever the size.
ReservesAnySize(base_address, enclave_size) == base_address # 0

\* Lines 123 and 142: base_address && enclave_size > 0.
Reserves(base_address, enclave_size) ==
    base_address # 0 /\ enclave_size > 0

\* mmap without MAP_FIXED: the range asked for, another one, or MAP_FAILED.
MmapOutcomes == {"AT_ADDRESS", "ELSEWHERE", "MAP_FAILED"}

\* Lines 121-128: reserve the range the enclave is to be loaded at.
SgxReserve(t) ==
    /\ pc[t] = "sgx_reserve"
    /\ IF Reserves(loc[t].base_address, loc[t].enclave_size)
       THEN \E outcome \in MmapOutcomes :
            /\ hist' = [hist EXCEPT ![t].trace = Append(@, Ev("mmap", outcome))]
            /\ reserved' =
                   CASE outcome = "AT_ADDRESS" ->
                            reserved \cup {loc[t].base_address}
                     [] outcome = "ELSEWHERE" -> reserved \cup {OtherAddress}
                     [] OTHER -> reserved
            /\ IF outcome = "AT_ADDRESS"
               THEN /\ pc' = [pc EXCEPT ![t] = "sgx_locate"]
                    /\ UNCHANGED loc
               ELSE /\ loc' = [loc EXCEPT ![t].status = GoogleStatus("INTERNAL")]
                    /\ pc' = [pc EXCEPT ![t] = "ret"]
       ELSE /\ pc' = [pc EXCEPT ![t] = "sgx_locate"]
            /\ UNCHANGED <<loc, hist, reserved>>
    /\ UNCHANGED <<manager, singleton, masking>>

\* FileMapping::CreateFromFile, ElfReader::CreateFromSpan, GetSectionData.
LocateOutcomes == {"OK", "NO_FILE", "NO_ELF", "NO_SECTION"}

\* Lines 130-140: find the section in the binary of the calling process; each
\* of the three calls returns its error at once.
SgxLocate(t) ==
    /\ pc[t] = "sgx_locate"
    /\ \E outcome \in LocateOutcomes :
        /\ hist' = [hist EXCEPT ![t].trace = Append(@, Ev("Locate", outcome))]
        /\ IF outcome = "OK"
           THEN /\ pc' = [pc EXCEPT ![t] = "sgx_release"]
                /\ UNCHANGED loc
           ELSE /\ loc' = [loc EXCEPT ![t].status = GoogleStatus(outcome)]
                /\ pc' = [pc EXCEPT ![t] = "ret"]
    /\ UNCHANGED <<manager, singleton, reserved, masking>>

MunmapOutcomes == {"OK", "FAILED"}

\* Lines 142-146: release the reservation.
SgxRelease(t) ==
    /\ pc[t] = "sgx_release"
    /\ IF Reserves(loc[t].base_address, loc[t].enclave_size)
       THEN \E outcome \in MunmapOutcomes :
            /\ hist' = [hist EXCEPT ![t].trace =
                                        Append(@, Ev("munmap", outcome))]
            /\ IF outcome = "OK"
               THEN /\ reserved' = reserved \ {loc[t].base_address}
                    /\ pc' = [pc EXCEPT ![t] = "sgx_create"]
                    /\ UNCHANGED loc
               ELSE /\ loc' = [loc EXCEPT ![t].status = GoogleStatus("INTERNAL")]
                    /\ pc' = [pc EXCEPT ![t] = "ret"]
                    /\ UNCHANGED reserved
       ELSE /\ pc' = [pc EXCEPT ![t] = "sgx_create"]
            /\ UNCHANGED <<loc, hist, reserved>>
    /\ UNCHANGED <<manager, singleton, masking>>

\* A loop that makes one attempt more than the bound.
LoopAgainOnceMore(status, i) ==
    status = Interrupted /\ i <= kMaxEnclaveCreateAttempts

\* A loop that also retries a creation that failed for good.
LoopAgainUnlessSuccess(status, i) ==
    status # "SGX_SUCCESS" /\ i < kMaxEnclaveCreateAttempts

\* Lines 91 and 99-101 (157, 163-165): after an attempt that returned status,
\* with i already incremented, is there another iteration?
LoopAgain(status, i) ==
    status = Interrupted /\ i < kMaxEnclaveCreateAttempts

\* Lines 92-94 (158-161): one iteration of the loop, the native creation call
\* answering with the next outcome of the script.
SgxCreate(t) ==
    LET status == loc[t].script[Len(Attempts(t)) + 1]
    IN  /\ pc[t] = "sgx_create"
        /\ Len(Attempts(t)) < MaxOutcomes
        /\ loc' = [loc EXCEPT ![t].native = status, ![t].i = @ + 1]
        /\ hist' = [hist EXCEPT ![t].trace = Append(@, Ev("Create", status))]
        /\ pc' = [pc EXCEPT ![t] = IF LoopAgain(status, loc[t].i + 1)
                                   THEN "sgx_create" ELSE "sgx_finish"]
        /\ UNCHANGED <<manager, singleton, reserved, masking>>

\* Lines 104-109 (168-174): the status of the last attempt decides.
SgxFinish(t) ==
    /\ pc[t] = "sgx_finish"
    /\ loc' = [loc EXCEPT ![t].status =
                              IF loc[t].native # "SGX_SUCCESS"
                              THEN SgxStatus(loc[t].native) ELSE OkStatus,
                          ![t].client = (loc[t].native = "SGX_SUCCESS")]
    /\ pc' = [pc EXCEPT ![t] = "ret"]
    /\ UNCHANGED <<manager, singleton, reserved, hist, masking>>

\* sgx_status_t values of sgx_ecall.
TransferStatuses == {"SGX_SUCCESS", "SGX_ERROR_ENCLAVE_LOST",
                     "SGX_ERROR_ENCLAVE_CRASHED"}

\* Values of ms.ms_retval after the call; the field is not written when the
\* transfer did not happen, so any of them may be found there.
Retvals == {0, 1, 2}

\* A classification that looks at the in-region return code first.
StatusOfCallRetvalFirst(transfer, retval) ==
    IF retval # 0 THEN GoogleStatus("INTERNAL")
    ELSE IF transfer # "SGX_SUCCESS" THEN SgxStatus(transfer)
    ELSE OkStatus

\* Lines 220-228: the status of a trusted call.
StatusOfCall(transfer, retval) ==
    IF transfer # "SGX_SUCCESS" THEN SgxStatus(transfer)
    ELSE IF retval # 0 THEN GoogleStatus("INTERNAL")
    ELSE OkStatus

\* The selectors of trusted calls (kSelectorAsyloInit and others).
Selectors == {1, 2}

\* Lines 210-229: sgx_ecall through entry point 0, then the classification.
EnclaveCallInternal(t) ==
    /\ pc[t] = "idle"
    /\ \E selector \in Selectors, transfer \in TransferStatuses,
          retval \in Retvals :
        loc' = [loc EXCEPT ![t] =
                  [NoSgxLoc EXCEPT !.op = "EnclaveCallInternal",
                                   !.selector = selector,
                                   !.native = transfer,
                                   !.retval = retval,
                                   !.ecalls = <<0>>,
                                   !.status = StatusOfCall(transfer, retval)]]
    /\ hist' = [hist EXCEPT ![t] = StartHist]
    /\ pc' = [pc EXCEPT ![t] = "ret"]
    /\ UNCHANGED <<manager, singleton, reserved, masking>>

SgxStep(t) ==
    \/ SgxLoad(t)
    \/ SgxReserve(t)
    \/ SgxLocate(t)
    \/ SgxRelease(t)
    \/ SgxCreate(t)
    \/ SgxFinish(t)
    \/ EnclaveCallInternal(t)
    \/ Return(t)

SgxNext == \E t \in SeqThreads : SgxStep(t)

SgxSpec == Init /\ [][SgxNext]_vars

----------------------------------------------------------------------------
\* The EnclaveManager singleton: Configure, Instance, the constructor and the
\* clock thread.  host_config_, the clock values and workers are those of the
\* manager constructed last.

\* How far the model counts the Configure calls that stored their options.
MaxConfigures == 2

\* How far the model lets the clock advance.
MaxTicks == 2

\* EnclaveManagerOptions: holding a HostConfig, or the attributes of a
\* connection to a config server.
Options == {"hostA", "hostB", "server"}

NoSingletonLoc ==
    [op |-> "none", options |-> Nil, status |-> "OK", result |-> Nil,
     made |-> FALSE, pre_configured |-> FALSE, pre_instance |-> Nil,
     pre_options |-> Nil]

\* A lock that excludes nobody.
CanLockAlways(t) == TRUE

\* absl::MutexLock lock(&mu_) returns once no thread holds mu_.
CanLock(t) == mu_ = Nil

\* Line 281: Configure takes mu_.
Configure(t) ==
    /\ pc[t] = "idle"
    /\ CanLock(t)
    /\ mu_' = t
    /\ \E options \in Options :
         loc' = [loc EXCEPT ![t] =
                   [NoSingletonLoc EXCEPT !.op = "Configure",
                                          !.options = options,
                                          !.pre_configured = configured_,
                                          !.pre_instance = instance_,
                                          !.pre_options = options_]]
    /\ pc' = [pc EXCEPT ![t] = "configure_check"]
    /\ UNCHANGED <<configured_, options_, instance_, host_config_,
                   clock_monotonic_, clock_realtime_, workers, constructed,
                   okConfigures>>
    /\ UNCHANGED <<manager, reserved, hist, masking>>

\* A Configure that does not look at the instance.
MayConfigureAlways(instance) == TRUE

\* Line 283: if (instance_) return FAILED_PRECONDITION.
MayConfigure(instance) == instance = Nil

\* Lines 283-287: the test for an instance; the lock is released on return.
ConfigureCheck(t) ==
    /\ pc[t] = "configure_check"
    /\ IF MayConfigure(instance_)
       THEN /\ pc' = [pc EXCEPT ![t] = "configure_store"]
            /\ UNCHANGED <<loc, mu_>>
       ELSE /\ loc' = [loc EXCEPT ![t].status = "FAILED_PRECONDITION"]
            /\ mu_' = Nil
            /\ pc' = [pc EXCEPT ![t] = "ret"]
    /\ UNCHANGED <<configured_, options_, instance_, host_config_,
                   clock_monotonic_, clock_realtime_, workers, constructed,
                   okConfigures>>
    /\ UNCHANGED <<manager, reserved, hist, masking>>

\* Lines 289-292: replace the stored options, set configured_, return OK.
ConfigureStore(t) ==
    /\ pc[t] = "configure_store"
    /\ options_' = loc[t].options
    /\ configured_' = TRUE
    /\ okConfigures' =
           [count |-> IF okConfigures.count < MaxConfigures
                      THEN okConfigures.count + 1 ELSE okConfigures.count,
            last |-> loc[t].options]
    /\ loc' = [loc EXCEPT ![t].status = "OK"]
    /\ mu_' = Nil
    /\ pc' = [pc EXCEPT ![t] = "ret"]
    /\ UNCHANGED <<instance_, host_config_, clock_monotonic_,
                   clock_realtime_, workers, constructed>>
    /\ UNCHANGED <<manager, reserved, hist, masking>>

\* Line 296: Instance takes mu_.
Instance(t) ==
    /\ pc[t] = "idle"
    /\ CanLock(t)
    /\ mu_' = t
    /\ loc' = [loc EXCEPT ![t] =
                 [NoSingletonLoc EXCEPT !.op = "Instance",
                                        !.pre_configured = configured_,
                                        !.pre_instance = instance_,
                                        !.pre_options = options_]]
    /\ pc' = [pc EXCEPT ![t] = "instance_check"]
    /\ UNCHANGED <<configured_, options_, instance_, host_config_,
                   clock_monotonic_, clock_realtime_, workers, constructed,
                   okConfigures>>
    /\ UNCHANGED <<manager, reserved, hist, masking>>

\* Lines 298-306: return the instance there is, or fail when unconfigured.
InstanceCheck(t) ==
    /\ pc[t] = "instance_check"
    /\ IF instance_ # Nil
       THEN /\ loc' = [loc EXCEPT ![t].result = instance_]
            /\ mu_' = Nil
            /\ pc' = [pc EXCEPT ![t] = "ret"]
       ELSE IF ~configured_
       THEN /\ loc' = [loc EXCEPT ![t].status = "FAILED_PRECONDITION"]
            /\ mu_' = Nil
            /\ pc' = [pc EXCEPT ![t] = "ret"]
       ELSE /\ pc' = [pc EXCEPT ![t] = "ctor"]
            /\ UNCHANGED <<loc, mu_>>
    /\ UNCHANGED <<configured_, options_, instance_, host_config_,
                   clock_monotonic_, clock_realtime_, workers, constructed,
                   okConfigures>>
    /\ UNCHANGED <<manager, reserved, hist, masking>>

\* A constructor that starts from an empty HostConfig whatever the options.
GetHostConfigEmpty(options) == "empty"

\* Lines 187-200: the HostConfig the options hold, or an empty one.
GetHostConfig(options) ==
    IF options \in {"hostA", "hostB"} THEN options ELSE "empty"

\* RegisterUnmanagedResource for the two clock resources.
RegisterOutcomes == {"OK", "FAILED"}

\* Lines 202-213: the constructor up to SpawnWorkerThread; LOG(FATAL) ends the
\* process, with mu_ still held.
Ctor(t) ==
    /\ pc[t] = "ctor"
    /\ host_config_' = GetHostConfig(options_)
    /\ constructed' = constructed + 1
    /\ clock_monotonic_' = Unset
    /\ clock_realtime_' = Unset
    /\ loc' = [loc EXCEPT ![t].made = TRUE]
    /\ \E outcome \in RegisterOutcomes :
         pc' = [pc EXCEPT ![t] = IF outcome = "OK" THEN "ctor_tick"
                                 ELSE "aborted"]
    /\ UNCHANGED <<mu_, configured_, options_, instance_, workers,
                   okConfigures>>
    /\ UNCHANGED <<manager, reserved, hist, masking>>

\* The value a Tick publishes: the clocks only move forward.
Now(clock) == IF clock = Unset THEN 1 ELSE clock + 1

\* A SpawnWorkerThread that leaves the first Tick to the clock thread.
NoFirstTick(clock) == clock

\* Lines 502-503 and 509-512: the Tick of SpawnWorkerThread.
FirstTick(clock) == Now(clock)

CtorTick(t) ==
    /\ pc[t] = "ctor_tick"
    /\ clock_monotonic_' = FirstTick(clock_monotonic_)
    /\ clock_realtime_' = FirstTick(clock_realtime_)
    /\ pc' = [pc EXCEPT ![t] = "ctor_spawn"]
    /\ UNCHANGED <<mu_, configured_, options_, instance_, host_config_,
                   workers, constructed, okConfigures>>
    /\ UNCHANGED <<manager, reserved, hist, loc, masking>>

\* Lines 504-505: start the clock thread and detach it.
CtorSpawn(t) ==
    /\ pc[t] = "ctor_spawn"
    /\ workers' = workers + 1
    /\ pc' = [pc EXCEPT ![t] = "instance_assign"]
    /\ UNCHANGED <<mu_, configured_, options_, instance_, host_config_,
                   clock_monotonic_, clock_realtime_, constructed,
                   okConfigures>>
    /\ UNCHANGED <<manager, reserved, hist, loc, masking>>

\* Lines 308-314: publish the new manager and return it; operator new does
\* not return null.
InstanceAssign(t) ==
    /\ pc[t] = "instance_assign"
    /\ instance_' = constructed
    /\ loc' = [loc EXCEPT ![t].result = constructed]
    /\ mu_' = Nil
    /\ pc' = [pc EXCEPT ![t] = "ret"]
    /\ UNCHANGED <<configured_, options_, host_config_, clock_monotonic_,
                   clock_realtime_, workers, constructed, okConfigures>>
    /\ UNCHANGED <<manager, reserved, hist, masking>>

\* Lines 514-523: one round of the clock thread.
WorkerLoop ==
    /\ workers > 0
    /\ clock_monotonic_ < MaxTicks
    /\ clock_monotonic_' = Now(clock_monotonic_)
    /\ clock_realtime_' = Now(clock_realtime_)
    /\ UNCHANGED <<mu_, configured_, options_, instance_, host_config_,
                   workers, constructed, okConfigures>>
    /\ UNCHANGED <<manager, reserved, pc, loc, hist, masking>>

SingletonStep(t) ==
    \/ Configure(t)
    \/ ConfigureCheck(t)
    \/ ConfigureStore(t)
    \/ Instance(t)
    \/ InstanceCheck(t)
    \/ Ctor(t)
    \/ CtorTick(t)
    \/ CtorSpawn(t)
    \/ InstanceAssign(t)
    \/ Return(t)

SingletonNext == (\E t \in Threads : SingletonStep(t)) \/ WorkerLoop

SingletonSpec == Init /\ [][SingletonNext]_vars

----------------------------------------------------------------------------
\* Properties of a load call, read off the state in which it has returned.

Returned(t) == pc[t] = "ret"

IsLoadCall(t) == loc[t].op \in {"LoadEnclave", "LoadFakeEnclave"}

\* The call runs in a forked child: fork enabled and a base address given.
ForkRecreation(t) ==
    /\ loc[t].op = "LoadEnclave"
    /\ loc[t].enable_fork
    /\ loc[t].base_address # 0

NameWasPresent(t) == loc[t].name \in DOMAIN hist[t].pre[1]

\* The outcomes recorded for a step of the call.
Outcomes(t, step) ==
    {hist[t].trace[i].outcome :
        i \in {j \in 1..Len(hist[t].trace) : hist[t].trace[j].step = step}}

Did(t, step) == Outcomes(t, step) # {}

Rejected(t) ==
    /\ loc[t].status = "ALREADY_EXISTS"
    /\ ~hist[t].created
    /\ GetClient(loc[t].name) = hist[t].pre[1][loc[t].name]

\* C1 as stated: every load call whose name is registered when it starts is
\* rejected with ALREADY_EXISTS, attempts no native creation and leaves the name
\* mapped to the client it was mapped to.
C1_EveryCollisionRejected ==
    \A t \in Threads :
        Returned(t) /\ IsLoadCall(t) /\ NameWasPresent(t) => Rejected(t)

\* C1 amended: every load call that is not a fork re-creation and whose name
\* is registered when it starts is rejected with ALREADY_EXISTS, attempts no
\* native creation and leaves the name mapped to the same client.
C1_CollisionRejected ==
    \A t \in Threads :
        Returned(t) /\ IsLoadCall(t) /\ NameWasPresent(t) /\ ~ForkRecreation(t)
            => Rejected(t)

C1_Witness ==
    \E t \in Threads :
        /\ Returned(t) /\ loc[t].op = "LoadEnclave" /\ NameWasPresent(t)
        /\ loc[t].enable_fork /\ BackendSupported(loc[t].load_config)
        /\ Rejected(t)

\* C2: a load call whose Initialize failed returns the Initialize status, and
\* when it returns the client has been destroyed and is in none of the three
\* maps: GetClient(name) is null and GetName(client) is empty.
C2_FailedInitializeUnregisters ==
    \A t \in Threads :
        Returned(t) /\ IsLoadCall(t) /\ Did(t, "Initialize")
        /\ Outcomes(t, "Initialize") # {"OK"}
            => /\ {loc[t].status} = Outcomes(t, "Initialize")
               /\ state[loc[t].client] = "Destroyed"
               /\ \A n \in DOMAIN client_by_name_ :
                      client_by_name_[n] # loc[t].client
               /\ loc[t].client \notin DOMAIN name_by_client_
               /\ loc[t].client \notin DOMAIN load_config_by_client_
               /\ GetClient(loc[t].name) = Nil
               /\ GetName(loc[t].client) = ""

C2_Witness ==
    \E t \in Threads :
        /\ Returned(t) /\ loc[t].op = "LoadEnclave" /\ loc[t].enable_fork
        /\ loc[t].status = "INIT_FAILED"
        /\ Did(t, "Insert") /\ Did(t, "Erase")
        /\ state[loc[t].client] = "Destroyed"

\* The registry a failed load must leave when the removal of the parent's
\* reference in a fork re-creation is all that may remain of it.
RegistryWithoutParent(t) ==
    LET pre == hist[t].pre
        name == loc[t].name
        parent == IF name \in DOMAIN pre[1] THEN pre[1][name] ELSE Nil
    IN  <<[n \in (DOMAIN pre[1]) \ {name} |-> pre[1][n]],
          [c \in (DOMAIN pre[2]) \ {parent} |-> pre[2][c]],
          pre[3]>>

----------------------------------------------------------------------------
\* Properties of the sweep.

\* The signal map before the call without the mappings owned by the client.
WithoutClient(map, client) ==
    [s \in {x \in DOMAIN map : map[x] # client} |-> map[s]]

\* C11: DeregisterAllSignalsForClient(c), called directly or by
\* DestroyEnclave, removes every mapping owned by c and leaves the mappings
\* of other clients as they were, also when restoring the default disposition
\* failed for some of c's signals; its status is non-OK exactly when at least
\* one restoration failed.
C11_SweepCompleteAndStatus ==
    \A t \in Threads :
        /\ Returned(t) /\ loc[t].op = "DeregisterAllSignalsForClient"
              => /\ signal_to_client_map_
                        = WithoutClient(hist[t].preSignals, loc[t].client)
                 /\ (loc[t].status # "OK") <=> hist[t].failed
        /\ pc[t] = "destroy_erase"
              => /\ signal_to_client_map_
                        = WithoutClient(hist[t].preSignals, loc[t].client)
                 /\ (loc[t].status # "OK") <=> hist[t].failed

C11_Witness ==
    \E t \in Threads :
        /\ Returned(t) /\ loc[t].op = "DeregisterAllSignalsForClient"
        /\ Cardinality(OwnedSignals(hist[t].preSignals, loc[t].client)) = 1
        /\ Cardinality(DOMAIN hist[t].preSignals) = 2
        /\ hist[t].failed
        /\ loc[t].status = "INVALID_ARGUMENT"
        /\ Cardinality(DOMAIN signal_to_client_map_) = 1

----------------------------------------------------------------------------
\* Properties of DestroyEnclave.

IsDestroyCall(t) == loc[t].op = "DestroyEnclave"

\* The client was registered when the call started.
WasRegistered(t) ==
    LET pre == hist[t].pre
        c == loc[t].client
    IN  /\ c # Nil
        /\ c \in DOMAIN pre[2]
        /\ pre[2][c] \in DOMAIN pre[1]
        /\ pre[1][pre[2][c]] = c

Unregistered(c) ==
    /\ \A n \in DOMAIN client_by_name_ : client_by_name_[n] # c
    /\ c \notin DOMAIN name_by_client_
    /\ c \notin DOMAIN load_config_by_client_

\* C4: when DestroyEnclave returns for a registered client, whatever failed on
\* the way, the client is in none of the three maps, GetClient of its name is
\* null, no signal maps to it, and dispatching a signal it owned fails with
\* INVALID_ARGUMENT.
C4_DestroyedClientGone ==
    \A t \in Threads :
        Returned(t) /\ IsDestroyCall(t) /\ WasRegistered(t)
            => /\ Unregistered(loc[t].client)
               /\ GetClient(hist[t].pre[2][loc[t].client]) = Nil
               /\ \A s \in DOMAIN signal_to_client_map_ :
                      signal_to_client_map_[s] # loc[t].client
               /\ \A s \in OwnedSignals(hist[t].preSignals, loc[t].client) :
                      GetClientForSignal(signal_to_client_map_, s).status
                          = "INVALID_ARGUMENT"

C4_Witness ==
    \E t \in Threads :
        /\ Returned(t) /\ IsDestroyCall(t) /\ WasRegistered(t)
        /\ Cardinality(OwnedSignals(hist[t].preSignals, loc[t].client)) = 2
        /\ loc[t].client \in DOMAIN hist[t].pre[3]
        /\ Outcomes(t, "Finalize") = {"FINALIZE_FAILED"}
        /\ Outcomes(t, "Destroy") = {"SGX_ERROR"}
        /\ Outcomes(t, "Deregister") = {"INVALID_ARGUMENT"}
        /\ Unregistered(loc[t].client)

\* C5: DestroyEnclave returns the Finalize status and nothing else: OK and no
\* step at all on a null client, OK and no Finalize when Finalize is skipped,
\* otherwise what Finalize returned; a failed Destroy or deregistration does
\* not change it.
C5_DestroyReturnsFinalizeStatus ==
    \A t \in Threads :
        Returned(t) /\ IsDestroyCall(t)
            => /\ loc[t].client = Nil
                    => /\ loc[t].status = "OK"
                       /\ hist[t].trace = <<>>
                       /\ registry = hist[t].pre
                       /\ signal_to_client_map_ = hist[t].preSignals
               /\ loc[t].client # Nil /\ loc[t].skip_finalize
                    => loc[t].status = "OK" /\ ~Did(t, "Finalize")
               /\ loc[t].client # Nil /\ ~loc[t].skip_finalize
                    => /\ Did(t, "Finalize")
                       /\ Outcomes(t, "Finalize") = {loc[t].status}

C5_Witness ==
    \E t \in Threads :
        /\ Returned(t) /\ IsDestroyCall(t) /\ loc[t].client # Nil
        /\ loc[t].skip_finalize
        /\ Outcomes(t, "Destroy") = {"SGX_ERROR"}
        /\ Outcomes(t, "Deregister") = {"INVALID_ARGUMENT"}
        /\ loc[t].status = "OK"

Steps(t) == [i \in 1..Len(hist[t].trace) |-> hist[t].trace[i].step]

DestroyOrder(t) ==
    IF loc[t].skip_finalize THEN <<"Destroy", "Deregister", "Erase">>
    ELSE <<"Finalize", "Destroy", "Deregister", "Erase">>

\* C6: DestroyEnclave on a non-null client performs Finalize (unless skipped),
\* Destroy, the deregistration of the client's signals and the removal from
\* the maps, in this order and all of them whatever the earlier ones returned:
\* the client is destroyed before its signals go, and the maps are untouched
\* until the signals are gone.
C6_TeardownOrder ==
    \A t \in Threads :
        IsDestroyCall(t) /\ loc[t].client # Nil
            => /\ pc[t] = "destroy_destroy"
                    => /\ Steps(t) = SubSeq(DestroyOrder(t), 1, Len(Steps(t)))
                       /\ ~Did(t, "Destroy")
                       /\ state[loc[t].client] # "Destroyed"
                       /\ signal_to_client_map_ = hist[t].preSignals
                       /\ registry = hist[t].pre
               /\ pc[t] = "destroy_deregister"
                    => /\ Steps(t) = SubSeq(DestroyOrder(t), 1, Len(Steps(t)))
                       /\ Did(t, "Destroy") /\ ~Did(t, "Deregister")
                       /\ state[loc[t].client] = "Destroyed"
                       /\ signal_to_client_map_ = hist[t].preSignals
                       /\ registry = hist[t].pre
               /\ pc[t] = "destroy_erase"
                    => /\ Steps(t) = SubSeq(DestroyOrder(t), 1, Len(Steps(t)))
                       /\ Did(t, "Deregister") /\ ~Did(t, "Erase")
                       /\ OwnedSignals(signal_to_client_map_, loc[t].client)
                              = {}
                       /\ registry = hist[t].pre
               /\ pc[t] = "ret"
                    => /\ Steps(t) = DestroyOrder(t)
                       /\ state[loc[t].client] = "Destroyed"
                       /\ OwnedSignals(signal_to_client_map_, loc[t].client)
                              = {}
                       /\ Unregistered(loc[t].client)

C6_Witness ==
    \E t \in Threads :
        /\ Returned(t) /\ IsDestroyCall(t) /\ WasRegistered(t)
        /\ Steps(t) = <<"Finalize", "Destroy", "Deregister", "Erase">>
        /\ Outcomes(t, "Finalize") = {"FINALIZE_FAILED"}
        /\ Outcomes(t, "Destroy") = {"SGX_ERROR"}
        /\ Outcomes(t, "Deregister") = {"INVALID_ARGUMENT"}
        /\ OwnedSignals(hist[t].preSignals, loc[t].client) # {}

----------------------------------------------------------------------------
\* Invariants of the registry.

\* A teardown of the client is between its Destroy and its removal from the
\* maps.
BeingRemoved(c) ==
    \E t \in Threads :
        /\ pc[t] \in {"destroy_deregister", "destroy_erase", "load_erase",
                      "fake_erase"}
        /\ loc[t].client = c

\* C7 as stated: in every state, the intermediate states of DestroyEnclave and
\* of a failed load included, every client in name->client is at least Loaded
\* and not Destroyed.
C7_RegisteredClientsNotDestroyed ==
    \A n \in DOMAIN client_by_name_ :
        state[client_by_name_[n]] \in {"Loaded", "Initialized"}

\* C7 amended: every client in name->client is at least Loaded, and is
\* Destroyed only while the DestroyEnclave call or the failed load that
\* destroyed it has not yet removed it from the maps.
C7_RegisteredClientsNotDestroyedAtRest ==
    \A n \in DOMAIN client_by_name_ :
        \/ state[client_by_name_[n]] \in {"Loaded", "Initialized"}
        \/ /\ state[client_by_name_[n]] = "Destroyed"
           /\ BeingRemoved(client_by_name_[n])

C7_Witness ==
    \E n \in DOMAIN client_by_name_ :
        /\ state[client_by_name_[n]] = "Destroyed"
        /\ \E t \in Threads :
               /\ pc[t] = "destroy_erase"
               /\ loc[t].client = client_by_name_[n]

\* No call is in progress.
Quiescent == \A t \in Threads : pc[t] \in {"idle", "ret"}

RegistryConsistent ==
    /\ \A n \in DOMAIN client_by_name_ :
           /\ client_by_name_[n] \in DOMAIN name_by_client_
           /\ name_by_client_[client_by_name_[n]] = n
    /\ \A c \in DOMAIN name_by_client_ :
           /\ name_by_client_[c] \in DOMAIN client_by_name_
           /\ client_by_name_[name_by_client_[c]] = c
    /\ DOMAIN load_config_by_client_ \subseteq DOMAIN name_by_client_

\* C8: between calls the three maps are consistent: name->client and
\* client->name are inverse of each other and every key of the load
\* configuration map is a key of client->name.
C8_RegistryConsistent == Quiescent => RegistryConsistent

----------------------------------------------------------------------------
\* Properties of the signal dispatcher.

Owner(map, signum) == IF signum \in DOMAIN map THEN map[signum] ELSE Nil

\* C9: RegisterSignal(s, B) returns the owner s had before the call, makes B
\* the owner of s and leaves every other signal alone; a dispatch of a signal
\* enters the client of its latest registration and no other.
C9_RegisterSignalReplacesOwner ==
    \A t \in Threads :
        /\ Returned(t) /\ loc[t].op = "RegisterSignal"
              => /\ loc[t].result = Owner(hist[t].preSignals, loc[t].signum)
                 /\ Owner(signal_to_client_map_, loc[t].signum) = loc[t].client
                 /\ \A s \in Signals \ {loc[t].signum} :
                        Owner(signal_to_client_map_, s)
                            = Owner(hist[t].preSignals, s)
        /\ Returned(t) /\ loc[t].op = "EnterEnclaveAndHandleSignal"
           /\ lastRegistered[loc[t].signum] \in Clients
              => /\ hist[t].entered = lastRegistered[loc[t].signum]
                 /\ loc[t].status \in SignalOutcomes

C9_Witness ==
    \E t \in Threads :
        /\ Returned(t) /\ loc[t].op = "RegisterSignal"
        /\ loc[t].result \in Clients \ {loc[t].client}
        /\ \E s \in Signals \ {loc[t].signum} :
               Owner(signal_to_client_map_, s) = loc[t].result

\* C10: a dispatch of a signal that has no owner, because it was never
\* registered or because its owner's signals were deregistered, fails with
\* INVALID_ARGUMENT, enters no client and leaves the signal map unchanged.
C10_UnownedSignalRejected ==
    \A t \in Threads :
        /\ pc[t] = "signal_enter" => lastRegistered[loc[t].signum] \in Clients
        /\ Returned(t) /\ loc[t].op = "EnterEnclaveAndHandleSignal"
           /\ lastRegistered[loc[t].signum] \notin Clients
              => /\ loc[t].status = "INVALID_ARGUMENT"
                 /\ hist[t].entered = Nil
                 /\ signal_to_client_map_ = hist[t].preSignals

C10_Witness ==
    \E t \in Threads :
        /\ Returned(t) /\ loc[t].op = "EnterEnclaveAndHandleSignal"
        /\ lastRegistered[loc[t].signum] = Removed
        /\ loc[t].status = "INVALID_ARGUMENT"

----------------------------------------------------------------------------
\* Properties of the SGX backend.

IsSgxLoad(t) == loc[t].op = "Load"

\* The Load got as far as the creation loop.
ReachedCreation(t) == Len(Attempts(t)) > 0

FirstInterrupted(t, n) == \A k \in 1..n : loc[t].script[k] = Interrupted

LoadSucceeded(t) == loc[t].status = OkStatus /\ loc[t].client

\* C12 as stated: when the native creation answers "interrupted" five times
\* in a row, the sixth answer decides: the Load fails if it is "interrupted"
\* again and succeeds if it is success.
C12_SixthOutcomeDecides ==
    \A t \in Threads :
        Returned(t) /\ IsSgxLoad(t) /\ ReachedCreation(t)
        /\ FirstInterrupted(t, kMaxEnclaveCreateAttempts)
            => /\ loc[t].script[kMaxEnclaveCreateAttempts + 1] = Interrupted
                    => ~LoadSucceeded(t)
               /\ loc[t].script[kMaxEnclaveCreateAttempts + 1] = "SGX_SUCCESS"
                    => LoadSucceeded(t)

\* C12 amended: when the native creation answers "interrupted" five times in
\* a row the Load fails with the "interrupted" status after exactly five
\* attempts, whatever a sixth attempt would have answered; when it answers
\* "interrupted" four times and then success, the Load succeeds with its
\* fifth attempt.
C12_FifthOutcomeDecides ==
    \A t \in Threads :
        Returned(t) /\ IsSgxLoad(t) /\ ReachedCreation(t)
            => /\ FirstInterrupted(t, kMaxEnclaveCreateAttempts)
                    => /\ loc[t].status = SgxStatus(Interrupted)
                       /\ ~loc[t].client
                       /\ Len(Attempts(t)) = kMaxEnclaveCreateAttempts
               /\ FirstInterrupted(t, kMaxEnclaveCreateAttempts - 1)
                  /\ loc[t].script[kMaxEnclaveCreateAttempts] = "SGX_SUCCESS"
                    => /\ LoadSucceeded(t)
                       /\ Len(Attempts(t)) = kMaxEnclaveCreateAttempts

C12_Witness ==
    \E t \in Threads :
        /\ Returned(t) /\ IsSgxLoad(t)
        /\ FirstInterrupted(t, kMaxEnclaveCreateAttempts)
        /\ loc[t].script[kMaxEnclaveCreateAttempts + 1] = "SGX_SUCCESS"
        /\ Len(Attempts(t)) = kMaxEnclaveCreateAttempts
        /\ loc[t].status = SgxStatus(Interrupted)

\* The retry policy, on the attempts a Load has made.
RetryPolicy(t) ==
    LET made == Attempts(t)
        n == Len(made)
    IN  /\ n \in 1..kMaxEnclaveCreateAttempts
        /\ \A k \in 1..(n - 1) : made[k] = Interrupted
        /\ n < kMaxEnclaveCreateAttempts => made[n] # Interrupted
        /\ LoadSucceeded(t) <=> made[n] = "SGX_SUCCESS"
        /\ ~LoadSucceeded(t) => loc[t].status = SgxStatus(made[n])

\* C13 as stated: every Load of the file-image and of the embedded-section
\* loader makes between one and five creation attempts, a further one only
\* after an "interrupted" one, none after an attempt that returned anything
\* else, and succeeds exactly when the last attempt did, returning the status
\* of the last attempt otherwise.
C13_EveryLoadRetries ==
    \A t \in Threads : Returned(t) /\ IsSgxLoad(t) => RetryPolicy(t)

\* C13 amended: every Load that gets as far as the creation loop (every
\* file-image Load, and an embedded-section Load whose reservation, section
\* lookup and release succeeded) follows the retry policy; while the loop
\* runs all attempts so far were "interrupted" and fewer than five; a Load
\* that does not get that far is an embedded-section Load, makes no attempt
\* and fails with the error of the step that failed.
C13_LoadRetriesOnceReached ==
    \A t \in Threads :
        /\ Returned(t) /\ IsSgxLoad(t) /\ ReachedCreation(t) => RetryPolicy(t)
        /\ Returned(t) /\ IsSgxLoad(t) /\ ~ReachedCreation(t)
              => /\ loc[t].loader = "embedded"
                 /\ ~loc[t].client
                 /\ loc[t].status.domain = "google"
                 /\ loc[t].status # OkStatus
        /\ pc[t] = "sgx_create"
              => /\ Len(Attempts(t)) < kMaxEnclaveCreateAttempts
                 /\ \A k \in 1..Len(Attempts(t)) : Attempts(t)[k] = Interrupted

C13_Witness ==
    \E t \in Threads :
        /\ Returned(t) /\ IsSgxLoad(t) /\ loc[t].loader = "embedded"
        /\ Attempts(t) = <<Interrupted, Interrupted, "SGX_ERROR_UNEXPECTED">>
        /\ loc[t].status = SgxStatus("SGX_ERROR_UNEXPECTED")

\* C17: a trusted call makes exactly one transfer, through entry point 0; a
\* transfer that did not succeed yields a status of the SGX error space that
\* carries the transfer status, whatever the in-region return code; a
\* successful transfer yields INTERNAL for a nonzero return code and OK for 0.
C17_CallOutcomeClassified ==
    \A t \in Threads :
        Returned(t) /\ loc[t].op = "EnclaveCallInternal"
            => /\ loc[t].ecalls = <<0>>
               /\ loc[t].native # "SGX_SUCCESS"
                    => loc[t].status = SgxStatus(loc[t].native)
               /\ loc[t].native = "SGX_SUCCESS" /\ loc[t].retval # 0
                    => loc[t].status = GoogleStatus("INTERNAL")
               /\ loc[t].native = "SGX_SUCCESS" /\ loc[t].retval = 0
                    => loc[t].status = OkStatus

C17_Witness ==
    \E t \in Threads :
        /\ Returned(t) /\ loc[t].op = "EnclaveCallInternal"
        /\ loc[t].native = "SGX_ERROR_ENCLAVE_LOST" /\ loc[t].retval # 0
        /\ loc[t].status = SgxStatus("SGX_ERROR_ENCLAVE_LOST")

----------------------------------------------------------------------------
\* Properties of the singleton.

\* C14: an Instance call that finds the manager unconfigured fails with
\* FAILED_PRECONDITION, constructs nothing and returns no instance; a
\* Configure call that finds an instance fails with FAILED_PRECONDITION and
\* leaves the stored options and the instance as they were.
C14_OrderingErrors ==
    \A t \in Threads :
        /\ Returned(t) /\ loc[t].op = "Instance" /\ ~loc[t].pre_configured
              => /\ loc[t].status = "FAILED_PRECONDITION"
                 /\ ~loc[t].made
                 /\ loc[t].result = Nil
        /\ Returned(t) /\ loc[t].op = "Configure" /\ loc[t].pre_instance # Nil
              => /\ loc[t].status = "FAILED_PRECONDITION"
                 /\ options_ = loc[t].pre_options
                 /\ instance_ = loc[t].pre_instance

C14_Witness ==
    \E t \in Threads, u \in Threads :
        /\ Returned(t) /\ loc[t].op = "Instance" /\ ~loc[t].pre_configured
        /\ loc[t].status = "FAILED_PRECONDITION"
        /\ Returned(u) /\ loc[u].op = "Configure" /\ loc[u].pre_instance # Nil
        /\ loc[u].status = "FAILED_PRECONDITION"
        /\ loc[u].options # options_

\* C15 as stated: at most one Configure call returns OK, and the instance
\* has consumed the options of that call.
C15_AtMostOneConfigure ==
    /\ okConfigures.count <= 1
    /\ instance_ # Nil /\ okConfigures.last \in {"hostA", "hostB"}
          => host_config_ = okConfigures.last

\* C15 amended: a Configure call returns OK exactly when it finds no
\* instance, so any number of them may succeed before the first successful
\* Instance call and none after; the instance has consumed the options of the
\* last Configure call that returned OK, which stay the stored options.
C15_ConfigureUntilInstance ==
    /\ \A t \in Threads :
           Returned(t) /\ loc[t].op = "Configure"
               => (loc[t].status = "OK" <=> loc[t].pre_instance = Nil)
    /\ instance_ # Nil
          => /\ okConfigures.count >= 1
             /\ options_ = okConfigures.last
             /\ okConfigures.last \in {"hostA", "hostB"}
                    => host_config_ = okConfigures.last
             /\ okConfigures.last = "server" => host_config_ = "empty"

C15_Witness ==
    /\ instance_ # Nil
    /\ okConfigures.count = 2
    /\ host_config_ = "hostB"
    /\ \E t \in Threads :
           /\ Returned(t) /\ loc[t].op = "Configure"
           /\ loc[t].options = "hostA"
           /\ loc[t].status = "FAILED_PRECONDITION"

\* C16: with Configure and Instance calls of several threads interleaved in
\* any way, the constructor runs at most once, at most one clock thread is
\* started, and every Instance call that returns OK returns the one instance.
C16_ConstructedOnce ==
    /\ constructed <= 1
    /\ workers <= 1
    /\ \A t \in Threads :
           Returned(t) /\ loc[t].op = "Instance" /\ loc[t].status = "OK"
               => loc[t].result # Nil /\ loc[t].result = instance_

C16_Witness ==
    \E t \in Threads, u \in Threads :
        /\ t # u
        /\ Returned(t) /\ loc[t].op = "Instance" /\ loc[t].made
        /\ Returned(u) /\ loc[u].op = "Instance" /\ ~loc[u].made
        /\ loc[u].pre_instance = loc[t].result
        /\ loc[t].result = loc[u].result /\ loc[t].result # Nil
        /\ workers = 1

\* C18: whenever the manager can be obtained (instance_ is set, or an
\* Instance call has returned it) or the clock thread runs, both published
\* clock values have been written by a Tick.
C18_ClockSetBeforePublished ==
    \/ /\ instance_ = Nil
       /\ workers = 0
       /\ \A t \in Threads : Returned(t) => loc[t].result = Nil
    \/ /\ clock_monotonic_ # Unset
       /\ clock_realtime_ # Unset

C18_Witness ==
    /\ instance_ # Nil
    /\ workers = 1
    /\ clock_monotonic_ = Now(Unset)
    /\ clock_realtime_ = Now(Unset)
    /\ \E t \in Threads : Returned(t) /\ loc[t].result = instance_

----------------------------------------------------------------------------
\* Properties of signal delivery against teardown.

\* C19: no signal is ever forwarded into a client whose Destroy has been
\* performed: every client that EnterEnclaveAndHandleSignal enters is, at
\* the moment it is entered, not Destroyed.
C19_DestroyedNeverEntered ==
    \A t \in Threads : "Destroyed" \notin Outcomes(t, "Enter")

\* C20: whenever a step of the manager removes a name from name->client, in
\* DestroyEnclave, in the cleanup after a failed Initialize or in
\* RemoveEnclaveReference, no signal is mapped to the client the name stood
\* for.
C20_NoErasureWhileRouted ==
    [][\A n \in DOMAIN client_by_name_ :
           n \notin DOMAIN client_by_name_'
               => OwnedSignals(signal_to_client_map_, client_by_name_[n]) = {}
      ]_vars

----------------------------------------------------------------------------
\* Properties of the load path.

\* Initialize of the client of thread t is about to run or running.
Initializing(t) == pc[t] \in {"load_init", "fake_init"}

Parent(t) ==
    IF NameWasPresent(t) THEN hist[t].pre[1][loc[t].name] ELSE Nil

\* Every entry name->client and client->name had when the call started is
\* still there.
EntriesKept(t) ==
    /\ \A n \in DOMAIN hist[t].pre[1] :
           n \in DOMAIN client_by_name_
           /\ client_by_name_[n] = hist[t].pre[1][n]
    /\ \A c \in DOMAIN hist[t].pre[2] :
           c \in DOMAIN name_by_client_
           /\ name_by_client_[c] = hist[t].pre[2][c]

\* C22: a LoadEnclave with fork enabled and a base address has unregistered
\* the entry under its name when it comes to the collision check, so it does
\* not fail with ALREADY_EXISTS; after its success the name maps to the new
\* client and the parent's client is in neither name->client nor
\* client->name.  A load without fork or without a base address removes no
\* entry that was there when it started.
C22_ParentUnregisteredFirst ==
    \A t \in Threads :
        IsLoadCall(t)
            => /\ ForkRecreation(t) /\ pc[t] = "load_check"
                    => /\ loc[t].name \notin DOMAIN client_by_name_
                       /\ Parent(t) \notin DOMAIN name_by_client_
                       /\ ~hist[t].created
               /\ ForkRecreation(t) /\ Returned(t)
                    => loc[t].status # "ALREADY_EXISTS"
               /\ ForkRecreation(t) /\ Returned(t) /\ loc[t].status = "OK"
                    => /\ GetClient(loc[t].name) = loc[t].client
                       /\ loc[t].client # Parent(t)
                       /\ Parent(t) \notin DOMAIN name_by_client_
                       /\ \A n \in DOMAIN client_by_name_ :
                              client_by_name_[n] # Parent(t)
               /\ ~ForkRecreation(t) => EntriesKept(t)

C22_Witness ==
    \E t \in Threads :
        /\ Returned(t) /\ IsLoadCall(t) /\ ForkRecreation(t)
        /\ NameWasPresent(t)
        /\ loc[t].status = "OK"
        /\ GetClient(loc[t].name) = loc[t].client
        /\ loc[t].client # Parent(t)

\* The call came through LoadEnclave(name, loader, [config,] base_address,
\* size) with a non-null base address and a nonzero size, for a loader with
\* an SGX load configuration.
PlacedLoad(t) ==
    /\ loc[t].op = "LoadEnclave"
    /\ hist[t].args.base_address # 0
    /\ hist[t].args.enclave_size # 0

\* C23: when LoadEnclave(name, loader, [config,] base_address, size) is
\* called with a non-null base address and a nonzero size on a loader with an
\* SGX load configuration, the backend's Load gets that base address and
\* size, and the load configuration stored for a fork-enabled client records
\* them in its fork sub-record.
C23_PlacementReachesBackend ==
    \A t \in Threads :
        PlacedLoad(t) /\ Did(t, "Create")
            => /\ BackendArgs(loc[t].load_config) = hist[t].args
               /\ Returned(t) /\ loc[t].status = "OK" /\ loc[t].enable_fork
                    => BackendArgs(load_config_by_client_[loc[t].client])
                           = hist[t].args

IsEmbeddedLoad(t) == IsSgxLoad(t) /\ loc[t].loader = "embedded"

\* The steps of an embedded-section load, the creation attempts as one.
EmbeddedOrder(t) ==
    IF loc[t].base_address # 0 /\ loc[t].enclave_size > 0
    THEN <<"mmap", "Locate", "munmap", "Create">>
    ELSE <<"Locate", "Create">>

\* The steps done so far follow the order, every step after the last of the
\* order being a further creation attempt.
FollowsOrder(t) ==
    LET order == EmbeddedOrder(t)
    IN  \A k \in 1..Len(hist[t].trace) :
            hist[t].trace[k].step =
                order[IF k < Len(order) THEN k ELSE Len(order)]

\* C24: an embedded-section load with a non-null base address and a nonzero
\* size reserves the range, locates the section, releases the range and
\* creates the region, in this order; when the reservation or the release
\* fails it returns INTERNAL and has made no creation attempt; with a null
\* base address or size 0 it neither reserves nor releases.
C24_EmbeddedOrder ==
    \A t \in Threads :
        IsEmbeddedLoad(t)
            => /\ FollowsOrder(t)
               /\ Returned(t)
                  /\ \/ Outcomes(t, "mmap") \cap {"ELSEWHERE", "MAP_FAILED"} # {}
                     \/ "FAILED" \in Outcomes(t, "munmap")
                    => /\ loc[t].status = GoogleStatus("INTERNAL")
                       /\ ~loc[t].client
                       /\ ~Did(t, "Create")
               /\ Returned(t) /\ Did(t, "Create")
                  /\ loc[t].base_address # 0 /\ loc[t].enclave_size > 0
                    => /\ Outcomes(t, "mmap") = {"AT_ADDRESS"}
                       /\ Outcomes(t, "munmap") = {"OK"}

C24_Witness ==
    \E t \in Threads :
        /\ Returned(t) /\ IsEmbeddedLoad(t)
        /\ Steps(t) = <<"mmap", "Locate", "munmap", "Create", "Create">>
        /\ LoadSucceeded(t)

\* C25: when an embedded-section load returns, on whatever path, the
\* reservation it made at its base address has been released, unless the
\* release itself failed.
C25_ReservationReleased ==
    \A t \in Threads :
        Returned(t) /\ IsEmbeddedLoad(t)
        /\ "AT_ADDRESS" \in Outcomes(t, "mmap")
        /\ "FAILED" \notin Outcomes(t, "munmap")
            => loc[t].base_address \notin reserved

----------------------------------------------------------------------------
\* The signal-map lock and the signal mask: RegisterSignal,
\* DeregisterAllSignalsForClient and the lookup of a signal's owner, statement
\* by statement, on one thread whose calls a delivered signal interrupts.
\* frames is the call stack of the thread: its bottom frame is the dispatcher
\* call made by the program (if any), every frame above it a signal handler
\* that interrupted the frame below.  Only the topmost frame runs.

\* Frames a stack may hold.
MaxDepth == 3

\* Everything the dispatching thread does not touch.
undispatched == <<registry, state, freed, lastRegistered, pc, loc, hist,
                  singleton, reserved>>

NoFrame ==
    [op |-> "none", pc |-> "none", signum |-> 0, client |-> Nil,
     oldmask |-> {}, failures |-> {}, result |-> Nil, status |-> "OK"]

Top == frames[Len(frames)]

SetTop(frame) == [frames EXCEPT ![Len(frames)] = frame]

Pop == SubSeq(frames, 1, Len(frames) - 1)

\* Line 541: the program calls RegisterSignal(signum, client).
CallRegisterSignal ==
    /\ frames = <<>>
    /\ \E signum \in Signals, client \in Clients :
        frames' = <<[NoFrame EXCEPT !.op = "RegisterSignal", !.pc = "mask",
                                    !.signum = signum, !.client = client]>>
    /\ UNCHANGED <<signal_to_client_map_, signal_enclave_map_lock_, sigmask,
                   undispatched>>

\* Line 562: the program calls DeregisterAllSignalsForClient(client);
\* failures are the signals whose signal(signum, SIG_DFL) will fail.
CallDeregisterAllSignalsForClient ==
    /\ frames = <<>>
    /\ \E client \in Clients, failures \in SUBSET Signals :
        frames' = <<[NoFrame EXCEPT !.op = "DeregisterAllSignalsForClient",
                                    !.pc = "mask", !.client = client,
                                    !.failures = failures]>>
    /\ UNCHANGED <<signal_to_client_map_, signal_enclave_map_lock_, sigmask,
                   undispatched>>

\* Lines 544-546 and 564-566: sigfillset, sigprocmask(SIG_SETMASK, &mask,
\* &oldmask).
BlockSignals ==
    /\ frames # <<>>
    /\ Top.pc = "mask"
    /\ sigmask' = Signals
    /\ frames' = SetTop([Top EXCEPT !.oldmask = sigmask, !.pc = "lock"])
    /\ UNCHANGED <<signal_to_client_map_, signal_enclave_map_lock_,
                   undispatched>>

\* Lines 549 and 569: absl::MutexLock lock(&signal_enclave_map_lock_) of the
\* two mutating calls; the mutex is not reentrant.
LockSignalMap ==
    /\ frames # <<>>
    /\ Top.op \in {"RegisterSignal", "DeregisterAllSignalsForClient"}
    /\ Top.pc = "lock"
    /\ signal_enclave_map_lock_ = 0
    /\ signal_enclave_map_lock_' = Len(frames)
    /\ frames' = SetTop([Top EXCEPT !.pc = "locked"])
    /\ UNCHANGED <<signal_to_client_map_, sigmask, undispatched>>

\* Lines 550-556: the update of RegisterSignal and the end of the lock's scope.
RegisterLocked ==
    /\ frames # <<>>
    /\ Top.op = "RegisterSignal" /\ Top.pc = "locked"
    /\ signal_to_client_map_' =
           RegisterSignalMap(signal_to_client_map_, Top.signum, Top.client)
    /\ signal_enclave_map_lock_' = 0
    /\ frames' = SetTop([Top EXCEPT
                            !.result = OldClient(signal_to_client_map_,
                                                 Top.signum),
                            !.pc = "unmask"])
    /\ UNCHANGED <<sigmask, undispatched>>

\* Lines 570-588: the sweep of DeregisterAllSignalsForClient and the end of
\* the lock's scope.
DeregisterLocked ==
    /\ frames # <<>>
    /\ Top.op = "DeregisterAllSignalsForClient" /\ Top.pc = "locked"
    /\ LET swept == Sweep(signal_to_client_map_, Top.client,
                          Top.failures \cap
                              OwnedSignals(signal_to_client_map_, Top.client))
       IN  /\ signal_to_client_map_' = swept.map
           /\ frames' = SetTop([Top EXCEPT !.status = swept.status,
                                           !.pc = "unmask"])
    /\ signal_enclave_map_lock_' = 0
    /\ UNCHANGED <<sigmask, undispatched>>

\* Lines 558-559 and 590-591: sigprocmask(SIG_SETMASK, &oldmask, nullptr) and
\* the return.
UnblockSignals ==
    /\ frames # <<>>
    /\ Top.pc = "unmask"
    /\ sigmask' = Top.oldmask
    /\ frames' = Pop
    /\ UNCHANGED <<signal_to_client_map_, signal_enclave_map_lock_,
                   undispatched>>

\* A signal that is not blocked is delivered to the thread: its handler calls
\* EnterEnclaveAndHandleSignal (line 594) on top of whatever the thread was
\* doing.  While the handler runs the kernel blocks the signal itself and the
\* handler's sa_mask, which the registering enclave chooses.
DeliverSignal ==
    /\ Len(frames) < MaxDepth
    /\ \E signum \in Signals \ sigmask, sa_mask \in SUBSET Signals :
        /\ frames' = Append(frames,
                            [NoFrame EXCEPT !.op = "GetClientForSignal",
                                            !.pc = "lock",
                                            !.signum = signum,
                                            !.oldmask = sigmask])
        /\ sigmask' = sigmask \cup {signum} \cup sa_mask
    /\ UNCHANGED <<signal_to_client_map_, signal_enclave_map_lock_,
                   undispatched>>

\* Line 532: absl::MutexLock lock(&signal_enclave_map_lock_) of the lookup,
\* taken under whatever mask the handler runs with.
LockForLookup ==
    /\ frames # <<>>
    /\ Top.op = "GetClientForSignal" /\ Top.pc = "lock"
    /\ signal_enclave_map_lock_ = 0
    /\ signal_enclave_map_lock_' = Len(frames)
    /\ frames' = SetTop([Top EXCEPT !.pc = "locked"])
    /\ UNCHANGED <<signal_to_client_map_, sigmask, undispatched>>

\* Lines 533-538: the lookup and the end of the lock's scope.
LookupLocked ==
    /\ frames # <<>>
    /\ Top.op = "GetClientForSignal" /\ Top.pc = "locked"
    /\ LET found == GetClientForSignal(signal_to_client_map_, Top.signum)
       IN  frames' = SetTop([Top EXCEPT !.result = found.client,
                                        !.status = found.status,
                                        !.pc = "enter"])
    /\ signal_enclave_map_lock_' = 0
    /\ UNCHANGED <<signal_to_client_map_, sigmask, undispatched>>

\* Lines 598-608: the early return or the entry into the enclave, then the
\* handler returns and the kernel restores the interrupted mask.
HandlerReturn ==
    /\ frames # <<>>
    /\ Top.op = "GetClientForSignal" /\ Top.pc = "enter"
    /\ sigmask' = Top.oldmask
    /\ frames' = Pop
    /\ UNCHANGED <<signal_to_client_map_, signal_enclave_map_lock_,
                   undispatched>>

MaskNext ==
    \/ CallRegisterSignal
    \/ CallDeregisterAllSignalsForClient
    \/ BlockSignals
    \/ LockSignalMap
    \/ RegisterLocked
    \/ DeregisterLocked
    \/ UnblockSignals
    \/ DeliverSignal
    \/ LockForLookup
    \/ LookupLocked
    \/ HandlerReturn

MaskSpec == Init /\ [][MaskNext]_vars

\* A handler that wants the lock which a frame it interrupted holds: the
\* thread can never release it.
SelfDeadlock ==
    /\ frames # <<>>
    /\ Top.pc = "lock"
    /\ signal_enclave_map_lock_ \in 1..(Len(frames) - 1)

\* C26: whenever the signal-map lock is held, by RegisterSignal, by
\* DeregisterAllSignalsForClient or by the owner lookup of a signal's
\* dispatch, every signal is blocked on the holding thread, so that no
\* handler runs on top of the holder and none waits for the lock its own
\* thread holds.
C26_LockHeldWithSignalsBlocked ==
    signal_enclave_map_lock_ # 0
        => /\ sigmask = Signals
           /\ Len(frames) = signal_enclave_map_lock_
           /\ ~SelfDeadlock

----------------------------------------------------------------------------
\* Two threads loading under one name at the same time: every step of
\* LoadEnclave(load_config) and of LoadFakeEnclave of one thread may fall
\* between any two steps of the other, client_table_lock_ being held inside
\* the check, the insertion and the cleanup only.

\* The load configurations of the racing threads: one name, the file source,
\* no base address.
RaceLoadConfigs ==
    {lc \in LoadConfigs : lc.name = "a" /\ lc.sgx /\ lc.source = "file"
                          /\ lc.base_address = 0}

LoadEnclaveRacing(t) ==
    /\ pc[t] = "idle"
    /\ \E load_config \in RaceLoadConfigs :
         LoadEnclaveBegin(t, load_config, NoArgs)

LoadFakeEnclaveRacing(t) ==
    /\ pc[t] = "idle"
    /\ \E config \in ConfigArgs : FakeBegin(t, "a", config, 0, 0)

RaceStep(t) ==
    \/ LoadEnclaveRacing(t)
    \/ LoadCheck(t)
    \/ LoadCreate(t)
    \/ LoadInsert(t)
    \/ LoadInit(t)
    \/ LoadDestroy(t)
    \/ LoadErase(t)
    \/ LoadFakeEnclaveRacing(t)
    \/ FakeCheck(t)
    \/ FakeCreate(t)
    \/ FakeInsert(t)
    \/ FakeInit(t)
    \/ FakeDestroy(t)
    \/ FakeErase(t)
    \/ Return(t)

RaceNext == \E t \in Threads : RaceStep(t)

RaceSpec == Init /\ [][RaceNext]_vars

\* The client of the call of thread t is the one registered under its name.
OwnedByMap(t) == GetClient(loc[t].name) = loc[t].client

\* C27: of two loads of one name on two threads at most one returns OK;
\* Initialize runs only on a client that the name -> client map owns; a
\* failing load leaves the entry of the other load in place; and once both
\* have returned, the name of every client in client -> name maps back to
\* that client.
C27_OneLoadWins ==
    /\ \A t \in Threads :
           IsLoadCall(t) /\ pc[t] \in {"load_init", "fake_init"}
               => OwnedByMap(t)
    /\ \A t, u \in Threads :
           t # u /\ Returned(t) /\ Returned(u)
           /\ IsLoadCall(t) /\ IsLoadCall(u) /\ loc[t].name = loc[u].name
               => /\ ~(loc[t].status = "OK" /\ loc[u].status = "OK")
                  /\ loc[t].status = "OK" => OwnedByMap(t)
                  /\ \A c \in DOMAIN name_by_client_ :
                         GetClient(name_by_client_[c]) = c

----------------------------------------------------------------------------
\* DestroyEnclave on a client the registry does not hold.  DestroyEnclave
\* takes any EnclaveClient *: here the caller passes a client object that it
\* constructed itself and that no load has registered.

\* Lines 218-228 for such a client: the null check passes, then Finalize.
DestroyUnregisteredEnclave(t) ==
    /\ pc[t] = "idle"
    /\ CanConstruct
    /\ \E skip_finalize \in BOOLEAN, outcome \in FinalizeOutcomes :
        /\ loc' = [loc EXCEPT ![t] =
                     [NoLoc EXCEPT
                         !.op = "DestroyEnclave", !.client = NewClient,
                         !.skip_finalize = skip_finalize,
                         !.finalize_status =
                             IF skip_finalize THEN "OK" ELSE outcome]]
        /\ hist' = [hist EXCEPT ![t] =
                      [StartHist EXCEPT !.trace =
                          IF skip_finalize THEN <<>>
                          ELSE <<Ev("Finalize", outcome)>>]]
    /\ state' = [state EXCEPT ![NewClient] = "Loaded"]
    /\ pc' = [pc EXCEPT ![t] = "destroy_destroy"]
    /\ UNCHANGED <<registry, signal_to_client_map_, lastRegistered, freed>>
    /\ UNCHANGED <<singleton, reserved, masking>>

UnregisteredStep(t) ==
    \/ LoadEnclave(t)
    \/ LoadCheck(t)
    \/ LoadCreate(t)
    \/ LoadInsert(t)
    \/ LoadInit(t)
    \/ LoadDestroy(t)
    \/ LoadErase(t)
    \/ RegisterSignal(t)
    \/ DestroyEnclave(t)
    \/ DestroyUnregisteredEnclave(t)
    \/ DestroyDestroy(t)
    \/ DestroyDeregister(t)
    \/ DestroyErase(t)
    \/ Return(t)

UnregisteredNext == \E t \in SeqThreads : UnregisteredStep(t)

UnregisteredSpec == Init /\ [][UnregisteredNext]_vars

\* The entries of client d in the three registry maps reg.
EntriesOf(reg, d) ==
    <<{n \in DOMAIN reg[1] : reg[1][n] = d},
      IF d \in DOMAIN reg[2] THEN {reg[2][d]} ELSE {},
      IF d \in DOMAIN reg[3] THEN {reg[3][d]} ELSE {}>>

\* C28: when DestroyEnclave(c) has returned, every other client d has the
\* name -> client, client -> name and client -> load-configuration entries
\* and the signals it had when the call started, whether or not c was in
\* the registry and also when an enclave is registered under the empty name.
C28_DestroyFrame ==
    \A t \in Threads :
        Returned(t) /\ loc[t].op = "DestroyEnclave" /\ loc[t].client # Nil
            => \A d \in Clients \ {loc[t].client} :
                   /\ EntriesOf(registry, d) = EntriesOf(hist[t].pre, d)
                   /\ OwnedSignals(signal_to_client_map_, d) =
                          OwnedSignals(hist[t].preSignals, d)

====
